---- MODULE Spec2Model ----
(***************************************************************************)
(* Model of the sync engine of blender_web_sync_plugin.py: the wire        *)
(* framing (send_data / receive_messages), the publish path                *)
(* (send_mesh_data and its two triggers), the anti-feedback gate           *)
(* (apply_transform_update, clear_external_transform_flag) and the         *)
(* session operators (StartWebSyncServer, StopWebSyncServer, load_handler, *)
(* unregister).                                                            *)
(*                                                                         *)
(* Time is in milliseconds.  Bytes are naturals 0..255, texts are          *)
(* sequences of code points.  The two size limits and the chunk size are   *)
(* scaled down (see MAX_RECV_SIZE) so that payloads on both sides of       *)
(* each limit fit in the model.                                            *)
(***************************************************************************)
EXTENDS Integers, Sequences, FiniteSets, TLC

(***************************************************************************)
(* Bounds of the model.                                                    *)
(***************************************************************************)
GateTickMs == 500    \* granularity of the clock where the gate is checked
SessionTickMs == 750 \* granularity of the clock where the sessions are checked
MaxTime == 1500      \* the clock stops here
MaxSockets == 2      \* start attempts (each creates a socket object)
MaxThreads == 2      \* inbound threads ever started
MaxFrames == 1       \* frames the peer sends over the whole run
MaxPublish == 2      \* calls of send_data over the whole run
MaxErrors == 1       \* extraction failures of send_mesh_data over the run
MaxTextures == 2     \* calls of extract_texture_data on an image over the run
RateTickMs == 50     \* granularity of the clock where the throttles are checked

(***************************************************************************)
(* Program constants.                                                      *)
(***************************************************************************)
\* 10 * 1024 * 1024 in the source, scaled: the largest accepted inbound length
MAX_RECV_SIZE == 5
\* 50 * 1024 * 1024 in the source, scaled: the largest outbound compressed size
MAX_SEND_SIZE == 6
\* 64 * 1024 in the source, scaled: bytes per send / recv call of a payload
CHUNK_SIZE == 4
\* time.time() + 1.0
COOLDOWN_MS == 1000
\* first_interval=0.1 of clear_external_transform_flag
CLEAR_DELAY_MS == 100
\* first_interval=0.001 of the apply_transform_update hand-off
APPLY_DELAY_MS == 1
\* frame_sync_throttle = 0.016
frame_sync_throttle == 16
\* receive_thread.join(timeout=2.0)
JOIN_TIMEOUT_MS == 2000

\* None where the other values are numbers; an optional text or message is
\* << >> for None and << x >> for x
None == -1
Some(x) == << x >>

(***************************************************************************)
(* Pure functions: bytes, UTF-8, zlib container, JSON documents.           *)
(***************************************************************************)
Min(a, b) == IF a < b THEN a ELSE b

\* s[from+1 .. to] in Python slice terms s[from:to]
Slice(s, from, to) == SubSeq(s, from + 1, Min(to, Len(s)))

RECURSIVE SumSeq(_)
SumSeq(s) == IF s = <<>> THEN 0 ELSE s[1] + SumSeq(Tail(s))

\* int.to_bytes(4, byteorder="big")
ToBytes4(n) ==
    << (n \div 16777216) % 256, (n \div 65536) % 256, (n \div 256) % 256, n % 256 >>

\* the largest integer of the model: a length of 2^31 or more, which is
\* above both size limits, is taken to be this one
MAX_INT == 2147483647

\* FromBytes4 with byteorder="little"
FromBytes4_Little(b) ==
    IF b[4] >= 128 THEN MAX_INT
    ELSE b[4] * 16777216 + b[3] * 65536 + b[2] * 256 + b[1]

\* int.from_bytes(size_data, byteorder="big") of 4 bytes
FromBytes4(b) ==
    IF b[1] >= 128 THEN MAX_INT
    ELSE b[1] * 16777216 + b[2] * 65536 + b[3] * 256 + b[4]

\* str.encode('utf-8') for code points below 0x800
RECURSIVE Utf8Encode(_)
Utf8Encode(t) ==
    IF t = <<>> THEN <<>>
    ELSE (IF t[1] < 128 THEN << t[1] >>
          ELSE << 192 + (t[1] \div 64), 128 + (t[1] % 64) >>) \o Utf8Encode(Tail(t))

\* bytes.decode('utf-8'): [ok |-> TRUE, text |-> t] or ok = FALSE
\* (UnicodeDecodeError) on a stray continuation byte, a truncated sequence,
\* an overlong form or a lead byte outside this range
RECURSIVE Utf8Decode(_)
Utf8Decode(b) ==
    IF b = <<>> THEN [ok |-> TRUE, text |-> <<>>]
    ELSE IF b[1] < 128
         THEN LET r == Utf8Decode(Tail(b))
              IN  [ok |-> r.ok, text |-> << b[1] >> \o r.text]
    ELSE IF b[1] >= 194 /\ b[1] < 224 /\ Len(b) >= 2 /\ b[2] >= 128 /\ b[2] < 192
         THEN LET r == Utf8Decode(Tail(Tail(b)))
              IN  [ok |-> r.ok, text |-> << (b[1] - 192) * 64 + (b[2] - 128) >> \o r.text]
    ELSE [ok |-> FALSE, text |-> <<>>]

\* zlib.compress(data, level=6): the zlib container, header 0x78 0x9C, the
\* data, and a checksum trailer (one byte here, Adler-32 in zlib)
ZlibCompress(b) == << 120, 156 >> \o b \o << SumSeq(b) % 251 >>

\* zlib.decompress: the inverse of ZlibCompress, ok = FALSE on anything else
ZlibDecompress(c) ==
    IF Len(c) >= 3 /\ c[1] = 120 /\ c[2] = 156
       /\ c[Len(c)] = SumSeq(SubSeq(c, 3, Len(c) - 1)) % 251
    THEN [ok |-> TRUE, data |-> SubSeq(c, 3, Len(c) - 1)]
    ELSE [ok |-> FALSE, data |-> <<>>]

\* The JSON documents of the model, as texts.  A transform_update document
\* is written {X}, the letter X standing for its members:
\*   T  objectName "Box" (in the scene), well-formed position/rotation/scale
\*   U  objectName "Nope" (not in the scene), well-formed fields
\*   M  position is not a list (position.copy() raises)
\*   L  position is a list the scene object rejects (obj.location = raises)
\*   O  "type": "other"
DocEmpty == << 123, 125 >>          \* {}
DocT == << 123, 84, 125 >>
DocU == << 123, 85, 125 >>
DocM == << 123, 77, 125 >>
DocL == << 123, 76, 125 >>
DocO == << 123, 79, 125 >>
DocNum == << 49 >>                  \* 1 : valid JSON, not an object
DocDeep == << 91, 91 >>             \* [[ : arrays nested deeper than the
                                    \* interpreter's recursion limit

\* json.loads(message_str): kind "error" is JSONDecodeError, "recursion" is
\* RecursionError (json.loads raises it, and no JSONDecodeError, on nesting
\* deeper than the recursion limit), "value" a JSON value that is no dict,
\* "dict" an object with the fields the code reads
JsonLoads(t) ==
    CASE t = DocEmpty -> [kind |-> "dict", type |-> "none", objectName |-> "", fields |-> "ok"]
      [] t = DocT -> [kind |-> "dict", type |-> "transform_update", objectName |-> "Box", fields |-> "ok"]
      [] t = DocU -> [kind |-> "dict", type |-> "transform_update", objectName |-> "Nope", fields |-> "ok"]
      [] t = DocM -> [kind |-> "dict", type |-> "transform_update", objectName |-> "Box", fields |-> "bad_early"]
      [] t = DocL -> [kind |-> "dict", type |-> "transform_update", objectName |-> "Box", fields |-> "bad_late"]
      [] t = DocO -> [kind |-> "dict", type |-> "other", objectName |-> "", fields |-> "ok"]
      [] t = DocNum -> [kind |-> "value", type |-> "none", objectName |-> "", fields |-> "ok"]
      [] t = DocDeep -> [kind |-> "recursion", type |-> "none", objectName |-> "", fields |-> "ok"]
      [] OTHER -> [kind |-> "error", type |-> "none", objectName |-> "", fields |-> "ok"]

(***************************************************************************)
(* State.                                                                  *)
(***************************************************************************)
VARIABLES
    \* module globals of the plugin
    tcp_socket,                      \* None or the id of a socket object
    is_server_running,
    last_data,                       \* None or the text last sent
    last_frame_sync_time,
    last_depsgraph_sync_time,
    receive_thread,                  \* None or the id of the latest thread
    stop_receive_thread,
    received_transform_data,
    is_applying_external_transform,
    external_transform_cooldown_end,
    last_applied_transform,          \* None or the message last applied
    sync_stats,
    settings,                        \* WebSyncSettings of the scene
    \* the host and the network
    now,                             \* time.time(), in ms
    timers,                          \* bpy.app.timers, in registration order
    registered,                      \* the handlers and operators are registered
    sock_connected,                  \* the socket object of tcp_socket is connected
    inbuf,                           \* bytes received and not yet read
    peer_eof,                        \* the peer has closed its side
    wire_out,                        \* bytes written to the socket of tcp_socket
    nsock,                           \* socket objects created so far
    thr,                             \* the inbound threads
    main_pc,                         \* "idle", or "joining" inside stop
    join_deadline,
    \* the peer
    peer_stream,                     \* bytes the peer still has to deliver
    echoed,                          \* bytes of wire_out an echoing peer has sent back
                                     \* (None: the peer does not echo)
    \* history
    nframes,                         \* frames the peer has sent
    npub,                            \* calls of send_data
    nerr,                            \* extraction failures
    rx_log,                          \* what the inbound loop made of each header
    ev,                              \* the last operation of the main thread
    applied_at,                      \* time the gate was last armed, or None
    applied_session,                 \* successful starts up to then
    serialized,                      \* None or the text send_mesh_data last built
    \* textures
    texture_cache,                   \* the dict, as a set of [key, data]
    tex_log                          \* the calls of extract_texture_data on an image

prog == << tcp_socket, is_server_running, last_data, last_frame_sync_time,
           last_depsgraph_sync_time, receive_thread, stop_receive_thread,
           received_transform_data, is_applying_external_transform,
           external_transform_cooldown_end, last_applied_transform, sync_stats,
           settings >>

host == << now, timers, registered, sock_connected, inbuf, peer_eof,
           wire_out, nsock, thr, main_pc, join_deadline, peer_stream, echoed >>

hist == << nframes, npub, nerr, rx_log, ev, applied_at, applied_session, serialized >>

tex == << texture_cache, tex_log >>

vars == << prog, host, hist, tex >>

Epoch == 5000        \* time.time() when the plugin is loaded

ThreadIds == 1 .. MaxThreads

\* What json.dumps(scene_data) gives for each scene; scene 0 has no visible
\* mesh object (send_mesh_data builds nothing).
Scenes == 0 .. 3
SceneText(s) ==
    CASE s = 1 -> << 123, 125 >>
      [] s = 2 -> << 123, 49, 125 >>
      [] OTHER -> << 123, 49, 49, 125 >>

\* WebSyncSettings.update_frequency: min=1, max=60, default=10
Freqs == {10}

InitStats ==
    [packets_sent |-> 0, bytes_sent |-> 0, errors |-> 0,
     textures_cached |-> 0, textures_sent |-> 0]

InitReceived ==
    [last_received |-> None, object_name |-> "", doc |-> <<>>, total_received |-> 0]

NewThread == [pc |-> "loop", size_data |-> <<>>, message_size |-> 0, message_data |-> <<>>]
NoThread == [pc |-> "none", size_data |-> <<>>, message_size |-> 0, message_data |-> <<>>]
DeadThread == [pc |-> "done", size_data |-> <<>>, message_size |-> 0, message_data |-> <<>>]

NThreads == Cardinality({t \in ThreadIds : thr[t].pc # "none"})

Alive(t) == t # None /\ thr[t].pc \notin {"none", "done"}

InitProgram ==
    /\ tcp_socket = None
    /\ is_server_running = FALSE
    /\ last_data = <<>>
    /\ last_frame_sync_time = 0
    /\ last_depsgraph_sync_time = 0
    /\ receive_thread = None
    /\ stop_receive_thread = FALSE
    /\ received_transform_data = InitReceived
    /\ is_applying_external_transform = FALSE
    /\ external_transform_cooldown_end = 0
    /\ last_applied_transform = <<>>
    /\ sync_stats = InitStats
    /\ settings \in [is_running : {FALSE}, update_frequency : Freqs]
    /\ now = Epoch
    /\ timers = <<>>
    /\ registered = TRUE
    /\ sock_connected = FALSE
    /\ inbuf = <<>>
    /\ peer_eof = FALSE
    /\ wire_out = <<>>
    /\ nsock = 0
    /\ thr = [t \in ThreadIds |-> NoThread]
    /\ main_pc = "idle"
    /\ join_deadline = 0
    /\ nframes = 0
    /\ npub = 0
    /\ nerr = 0
    /\ rx_log = <<>>
    /\ ev = [op |-> "init", res |-> ""]
    /\ applied_at = None
    /\ applied_session = None
    /\ serialized = <<>>
    /\ texture_cache = {}
    /\ tex_log = <<>>

\* the plugin has been loaded; the peer, once connected, sends whole frames
Init ==
    /\ InitProgram
    /\ peer_stream = <<>>
    /\ echoed = None

(***************************************************************************)
(* receive_messages: one step per recv call, with the loop tests and the   *)
(* local work that precede and follow it.                                  *)
(***************************************************************************)
\* socket.recv(k) on the global tcp_socket: "data" with the bytes, "timeout"
\* (socket.timeout), "closed" (b"") or "error" (any other exception:
\* tcp_socket is None, or the socket object is closed or not connected)
Recv(k) ==
    IF tcp_socket = None \/ ~sock_connected THEN [kind |-> "error", chunk |-> <<>>]
    ELSE IF inbuf # <<>> THEN [kind |-> "data", chunk |-> SubSeq(inbuf, 1, Min(k, Len(inbuf)))]
    ELSE IF peer_eof THEN [kind |-> "closed", chunk |-> <<>>]
    ELSE [kind |-> "timeout", chunk |-> <<>>]

\* TooLarge without the limit
TooLarge_Never(message_size) == FALSE

\* message_size > 10 * 1024 * 1024
TooLarge(message_size) == message_size > MAX_RECV_SIZE

\* message_data += chunk  (and size_data += chunk)
Accumulate(data, chunk) == data \o chunk

\* Complete without the comparison
Complete_Always(message_data, message_size) == TRUE

\* if len(message_data) == message_size
Complete(message_data, message_size) == Len(message_data) = message_size

\* Parse with the payload decompressed before it is decoded
Parse_Inflate(message_data) ==
    LET z == ZlibDecompress(message_data)
        u == Utf8Decode(z.data)
        m == JsonLoads(u.text)
    IN  IF ~z.ok \/ ~u.ok THEN [outcome |-> "unicode_error", text |-> <<>>]
        ELSE IF m.kind = "error" THEN [outcome |-> "json_error", text |-> <<>>]
        ELSE IF m.kind \in {"value", "recursion"} THEN [outcome |-> "crash", text |-> u.text]
        ELSE IF m.type = "transform_update" THEN [outcome |-> "queued", text |-> u.text]
        ELSE [outcome |-> "ignored", text |-> u.text]

\* Parse without the test of the type
Parse_AnyType(message_data) ==
    LET u == Utf8Decode(message_data)
        m == JsonLoads(u.text)
    IN  IF ~u.ok THEN [outcome |-> "unicode_error", text |-> <<>>]
        ELSE IF m.kind = "error" THEN [outcome |-> "json_error", text |-> <<>>]
        ELSE IF m.kind \in {"value", "recursion"} THEN [outcome |-> "crash", text |-> u.text]
        ELSE [outcome |-> "queued", text |-> u.text]

\* lines 198-211 on a complete message_data: the outcome, and the message
\* handed to bpy.app.timers.register when there is one.  "crash" is an
\* exception the inner except clause does not name (AttributeError of
\* message.get on a value that is no dict, RecursionError of json.loads): the
\* outer clause takes it and breaks the loop
Parse(message_data) ==
    LET u == Utf8Decode(message_data)
        m == JsonLoads(u.text)
    IN  IF ~u.ok THEN [outcome |-> "unicode_error", text |-> <<>>]
        ELSE IF m.kind = "error" THEN [outcome |-> "json_error", text |-> <<>>]
        ELSE IF m.kind \in {"value", "recursion"} THEN [outcome |-> "crash", text |-> u.text]
        ELSE IF m.type = "transform_update" THEN [outcome |-> "queued", text |-> u.text]
        ELSE [outcome |-> "ignored", text |-> u.text]

Log(size, data, outcome, text) ==
    [size |-> size, data |-> data, outcome |-> outcome, text |-> text]

\* T_Loop without the test of the stop flag
T_Loop_IgnoresStop(t) ==
    /\ thr[t].pc = "loop"
    /\ thr' = [thr EXCEPT ![t] =
                 IF tcp_socket = None THEN DeadThread
                 ELSE [NewThread EXCEPT !.pc = "hdr"]]
    /\ UNCHANGED << prog, hist, now, timers, registered, sock_connected, inbuf,
                    peer_eof, wire_out, nsock, main_pc, join_deadline, peer_stream, echoed >>
    /\ UNCHANGED tex

\* while not stop_receive_thread and tcp_socket:  ...  size_data = b""
T_Loop(t) ==
    /\ thr[t].pc = "loop"
    /\ thr' = [thr EXCEPT ![t] =
                 IF stop_receive_thread \/ tcp_socket = None THEN DeadThread
                 ELSE [NewThread EXCEPT !.pc = "hdr"]]
    /\ UNCHANGED << prog, hist, now, timers, registered, sock_connected, inbuf,
                    peer_eof, wire_out, nsock, main_pc, join_deadline, peer_stream, echoed >>
    /\ UNCHANGED tex

\* the header loop (lines 152-163) and what follows it (165-178)
T_Header(t) ==
    /\ thr[t].pc = "hdr"
    /\ IF Len(thr[t].size_data) < 4 /\ ~stop_receive_thread
       THEN LET r == Recv(4 - Len(thr[t].size_data))
            IN  /\ r.kind # "timeout"
                /\ thr' = [thr EXCEPT ![t] =
                             IF r.kind = "data"
                             THEN [@ EXCEPT !.size_data = Accumulate(@, r.chunk)]
                             ELSE DeadThread]
                /\ inbuf' = SubSeq(inbuf, Len(r.chunk) + 1, Len(inbuf))
                /\ UNCHANGED rx_log
       ELSE /\ UNCHANGED inbuf
            /\ IF Len(thr[t].size_data) < 4
               THEN /\ thr' = [thr EXCEPT ![t] = NewThread]
                    /\ UNCHANGED rx_log
               ELSE LET message_size == FromBytes4(thr[t].size_data)
                    IN  IF TooLarge(message_size)
                        THEN /\ thr' = [thr EXCEPT ![t] = NewThread]
                             /\ rx_log' = Append(rx_log, Log(message_size, <<>>, "too_large", <<>>))
                        ELSE /\ thr' = [thr EXCEPT ![t] =
                                          [pc |-> "body", size_data |-> <<>>,
                                           message_size |-> message_size,
                                           message_data |-> <<>>]]
                             /\ UNCHANGED rx_log
    /\ UNCHANGED << prog, now, timers, registered, sock_connected, peer_eof,
                    wire_out, nsock, main_pc, join_deadline, peer_stream, echoed,
                    nframes, npub, nerr, ev, applied_at, applied_session, serialized >>
    /\ UNCHANGED tex

\* T_Body with the transform applied by the thread itself: the reads of the
\* payload, and the step on a payload read whole that is a transform_update
T_Body_Applies(t) ==
    /\ thr[t].pc = "body"
    /\ IF Len(thr[t].message_data) < thr[t].message_size
       THEN LET r == Recv(Min(thr[t].message_size - Len(thr[t].message_data), CHUNK_SIZE))
            IN  /\ r.kind = "data"
                /\ thr' = [thr EXCEPT ![t].message_data = Accumulate(@, r.chunk)]
                /\ inbuf' = SubSeq(inbuf, Len(r.chunk) + 1, Len(inbuf))
                /\ UNCHANGED << rx_log, is_applying_external_transform,
                                external_transform_cooldown_end, received_transform_data >>
       ELSE /\ Parse(thr[t].message_data).outcome = "queued"
            /\ rx_log' = Append(rx_log, Log(thr[t].message_size, thr[t].message_data,
                                            "queued", Parse(thr[t].message_data).text))
            /\ is_applying_external_transform' = TRUE
            /\ external_transform_cooldown_end' = now + COOLDOWN_MS
            /\ received_transform_data' =
                  [received_transform_data EXCEPT !.total_received = @ + 1]
            /\ thr' = [thr EXCEPT ![t] = NewThread]
            /\ UNCHANGED inbuf
    /\ UNCHANGED << tcp_socket, is_server_running, last_data, last_frame_sync_time,
                    last_depsgraph_sync_time, receive_thread, stop_receive_thread,
                    last_applied_transform, sync_stats, settings, now, timers,
                    registered, sock_connected, peer_eof, wire_out, nsock, main_pc,
                    join_deadline, peer_stream, echoed,
                    nframes, npub, nerr, ev, applied_at, applied_session, serialized >>
    /\ UNCHANGED tex

\* the payload loop (lines 179-194) and what follows it (196-211)
T_Body(t) ==
    /\ thr[t].pc = "body"
    /\ IF Len(thr[t].message_data) < thr[t].message_size /\ ~stop_receive_thread
       THEN LET remaining == thr[t].message_size - Len(thr[t].message_data)
                r == Recv(Min(remaining, CHUNK_SIZE))
            IN  /\ r.kind # "timeout"
                /\ thr' = [thr EXCEPT ![t] =
                             IF r.kind = "data"
                             THEN [@ EXCEPT !.message_data = Accumulate(@, r.chunk)]
                             ELSE DeadThread]
                /\ inbuf' = SubSeq(inbuf, Len(r.chunk) + 1, Len(inbuf))
                /\ UNCHANGED << rx_log, timers >>
       ELSE /\ UNCHANGED inbuf
            /\ IF Complete(thr[t].message_data, thr[t].message_size)
               THEN LET p == Parse(thr[t].message_data)
                    IN  /\ rx_log' = Append(rx_log, Log(thr[t].message_size,
                                                       thr[t].message_data, p.outcome, p.text))
                        /\ timers' = IF p.outcome = "queued"
                                     THEN Append(timers, [fn |-> "apply",
                                                          due |-> now + APPLY_DELAY_MS,
                                                          msg |-> p.text])
                                     ELSE timers
                        /\ thr' = [thr EXCEPT ![t] =
                                     IF p.outcome = "crash" THEN DeadThread ELSE NewThread]
               ELSE /\ rx_log' = Append(rx_log, Log(thr[t].message_size,
                                                   thr[t].message_data, "incomplete", <<>>))
                    /\ thr' = [thr EXCEPT ![t] = NewThread]
                    /\ UNCHANGED timers
    /\ UNCHANGED << prog, now, registered, sock_connected, peer_eof,
                    wire_out, nsock, main_pc, join_deadline, peer_stream, echoed,
                    nframes, npub, nerr, ev, applied_at, applied_session, serialized >>
    /\ UNCHANGED tex

(***************************************************************************)
(* Textures.  An image is what a socket of the Principled BSDF leads to:   *)
(*   linked    the socket is linked to a TEX_IMAGE node with an image      *)
(*   name      image.name                                                  *)
(*   packed    None or image.packed_file.data                              *)
(*   filepath  image.filepath ("" when it has none)                        *)
(* Each call takes the world as an input: the path of the .blend file (""  *)
(* when it is not saved) and what the file system holds at the image's     *)
(* path.  Texts are sequences of code points.                              *)
(***************************************************************************)
NoImage == [linked |-> FALSE, name |-> <<>>, packed |-> <<>>, filepath |-> <<>>]

\* "a.png" at "/a.png"
ImgAbsolute ==
    [linked |-> TRUE, name |-> << 97, 46, 112, 110, 103 >>, packed |-> <<>>,
     filepath |-> << 47, 97, 46, 112, 110, 103 >>]

\* "b.JPG" at "//b.JPG"
ImgRelative ==
    [linked |-> TRUE, name |-> << 98, 46, 74, 80, 71 >>, packed |-> <<>>,
     filepath |-> << 47, 47, 98, 46, 74, 80, 71 >>]

\* "c", packed
ImgPacked ==
    [linked |-> TRUE, name |-> << 99 >>, packed |-> Some(<< 1, 2 >>), filepath |-> <<>>]

\* "d.tga", neither packed nor with a path
ImgNoPath ==
    [linked |-> TRUE, name |-> << 100, 46, 116, 103, 97 >>, packed |-> <<>>,
     filepath |-> <<>>]

\* the file at the image's path: absent, present and not readable, or
\* readable with its bytes; mtime is int(st_mtime).  Two of the readable
\* files differ in their bytes only, one is empty
FileStates ==
    { [exists |-> FALSE, readable |-> FALSE, data |-> <<>>, mtime |-> 0],
      [exists |-> TRUE, readable |-> FALSE, data |-> << 7 >>, mtime |-> 1],
      [exists |-> TRUE, readable |-> TRUE, data |-> << 7 >>, mtime |-> 1],
      [exists |-> TRUE, readable |-> TRUE, data |-> << 8 >>, mtime |-> 1],
      [exists |-> TRUE, readable |-> TRUE, data |-> << 8, 9 >>, mtime |-> 2],
      [exists |-> TRUE, readable |-> TRUE, data |-> <<>>, mtime |-> 2] }

\* bpy.data.filepath: "" or "/p/s"
BlendFiles == { <<>>, << 47, 112, 47, 115 >> }

Worlds == [blend_file : BlendFiles, file : FileStates]

\* image.filepath.startswith('//')
IsBlendRelative(filepath) ==
    Len(filepath) >= 2 /\ filepath[1] = 47 /\ filepath[2] = 47

\* os.path.dirname(p)
DirName(p) ==
    LET slashes == {i \in 1 .. Len(p) : p[i] = 47}
    IN  IF slashes = {} THEN <<>>
        ELSE LET i == CHOOSE j \in slashes : \A k \in slashes : k <= j
             IN  IF i = 1 THEN << 47 >> ELSE SubSeq(p, 1, i - 1)

\* os.path.join(a, b)
PathJoin(a, b) ==
    IF b # <<>> /\ b[1] = 47 THEN b
    ELSE IF a = <<>> \/ a[Len(a)] = 47 THEN a \o b
    ELSE a \o << 47 >> \o b

NoKey == [kind |-> "none", id |-> <<>>, size |-> None, mtime |-> None]

\* get_file_cache_key(image_path): path|size|mtime, or the path alone when
\* os.stat raises
get_file_cache_key(image_path, file) ==
    IF file.exists
    THEN [kind |-> "file", id |-> image_path, size |-> Len(file.data), mtime |-> file.mtime]
    ELSE [kind |-> "path", id |-> image_path, size |-> None, mtime |-> None]

\* f"packed:{image.name}:{len(image.packed_file.data)}"
PackedKey(image) ==
    [kind |-> "packed", id |-> image.name, size |-> Len(image.packed[1]), mtime |-> None]

\* image.name.lower().split('.')[-1] if '.' in image.name else 'png'
FormatExtension(name) ==
    LET dots == {i \in 1 .. Len(name) : name[i] = 46}
        lower(c) == IF c \in 65 .. 90 THEN c + 32 ELSE c
    IN  IF dots = {} THEN << 112, 110, 103 >>
        ELSE LET i == CHOOSE j \in dots : \A k \in dots : k <= j
             IN  [k \in 1 .. Len(name) - i |-> lower(name[i + k])]

\* the mime type of the data URL (lines 497-506)
MimeType(format_extension) ==
    IF format_extension \in { << 106, 112, 103 >>, << 106, 112, 101, 103 >> }
    THEN "image/jpeg"
    ELSE IF format_extension = << 112, 110, 103 >> THEN "image/png"
    ELSE IF format_extension = << 98, 109, 112 >> THEN "image/bmp"
    ELSE IF format_extension = << 116, 103, 97 >> THEN "image/tga"
    ELSE "image/png"

\* calculate_fast_hash(data): the MD5 digest, which tells any two of the
\* model's byte strings apart
calculate_fast_hash(data) == [md5 |-> data]

\* texture_data (lines 511-518); base64 is kept as the bytes it encodes
TextureData(image, image_data) ==
    [kind |-> "asset", name |-> image.name,
     data |-> [mime |-> MimeType(FormatExtension(image.name)), base64 |-> image_data],
     size |-> Len(image_data),
     format |-> FormatExtension(image.name),
     hash |-> calculate_fast_hash(image_data)]

\* return None
NoTexture == [kind |-> "none"]

\* the dicts with an "error" member
TextureError(image, error) ==
    [kind |-> "error", name |-> image.name, filepath |-> image.filepath, error |-> error]

\* InCache with a cache that never answers
InCache_Never(cache, key) == FALSE

\* cache_key in texture_cache
InCache(cache, key) == \E e \in cache : e.key = key

\* what a call returns without touching the cache or the counters
Returned(ret, cache, key, read) ==
    [ret |-> ret, cache |-> cache, cached |-> 0, sent |-> 0, key |-> key, read |-> read]

\* the cache has an entry under the key (lines 419-428, 458-467); an entry
\* always has a name and a hash, so the entry is what is returned
CacheHit(cache, key) ==
    [ret |-> (CHOOSE e \in cache : e.key = key).data, cache |-> cache,
     cached |-> 1, sent |-> 0, key |-> key, read |-> FALSE]

\* lines 490-528, the bytes of the image having been read
Encode(image, cache, key, image_data) ==
    IF image_data # <<>>
    THEN LET texture_data == TextureData(image, image_data)
         IN  [ret |-> texture_data,
              cache |-> cache \cup {[key |-> key, data |-> texture_data]},
              cached |-> 0, sent |-> 1, key |-> key, read |-> TRUE]
    ELSE Returned(NoTexture, cache, key, TRUE)

\* lines 438-488, for an image that is an external file
ExtractFile(image, world, cache) ==
    LET image_path ==
            IF IsBlendRelative(image.filepath)
            THEN PathJoin(DirName(world.blend_file),
                          SubSeq(image.filepath, 3, Len(image.filepath)))
            ELSE image.filepath
        cache_key == get_file_cache_key(image_path, world.file)
    IN  IF IsBlendRelative(image.filepath) /\ world.blend_file = <<>>
        THEN Returned(TextureError(image, "relative_path_no_blend"), cache, NoKey, FALSE)
        ELSE IF InCache(cache, cache_key) THEN CacheHit(cache, cache_key)
        ELSE IF ~world.file.exists
        THEN Returned(TextureError(image, "file_not_found"), cache, cache_key, FALSE)
        ELSE IF ~world.file.readable
        THEN Returned(TextureError(image, "str(e)"), cache, cache_key, FALSE)
        ELSE Encode(image, cache, cache_key, world.file.data)

\* extract_texture_data(socket) for the image the socket leads to: what it
\* returns, the cache afterwards, what it adds to textures_cached and
\* textures_sent, the cache key it has computed and whether it has read the
\* bytes of the image
extract_texture_data(image, world, cache) ==
    IF ~image.linked THEN Returned(NoTexture, cache, NoKey, FALSE)
    ELSE IF image.packed # <<>>
    THEN IF InCache(cache, PackedKey(image))
         THEN CacheHit(cache, PackedKey(image))
         ELSE Encode(image, cache, PackedKey(image), image.packed[1])
    ELSE IF image.filepath # <<>>
    THEN ExtractFile(image, world, cache)
    ELSE Returned([kind |-> "error", name |-> image.name, error |-> "no_filepath"],
                  cache, NoKey, FALSE)

\* the image behind the Base Color of the one material of scene s: scenes
\* 0 to 3 have no image texture
TexturedScenes == 4 .. 7
SceneImage(s) ==
    CASE s = 4 -> ImgAbsolute
      [] s = 5 -> ImgRelative
      [] s = 6 -> ImgPacked
      [] s = 7 -> ImgNoPath
      [] OTHER -> NoImage

\* extract_material_data with the error markers left out of the material
extract_material_data_DropErrors(texture_data) ==
    IF texture_data.kind \in {"none", "error"}
    THEN [name |-> "Material", textures |-> <<>>]
    ELSE [name |-> "Material", textures |-> Some([diffuse |-> texture_data])]

\* extract_material_data(material): textures["diffuse"] is what
\* extract_texture_data has returned, unless that is None (lines 591-595, 684)
extract_material_data(texture_data) ==
    IF texture_data.kind = "none"
    THEN [name |-> "Material", textures |-> <<>>]
    ELSE [name |-> "Material", textures |-> Some([diffuse |-> texture_data])]

\* json.dumps(scene_data) for a scene whose material is material_data: one
\* character between braces, a capital for an error marker, a small letter
\* for an asset, by its bytes
MaterialText(material_data) ==
    IF material_data.textures = <<>> THEN << 123, 48, 125 >>
    ELSE LET t == material_data.textures[1].diffuse
         IN  IF t.kind = "error"
             THEN << 123, CASE t.error = "relative_path_no_blend" -> 82
                            [] t.error = "file_not_found" -> 70
                            [] t.error = "no_filepath" -> 78
                            [] OTHER -> 69, 125 >>
             ELSE << 123, 97 + (SumSeq(t.hash.md5) % 26), 125 >>

(***************************************************************************)
(* send_data.  The socket's answers to the send calls are an input:        *)
(*   hdr      what send(size_header) returns (None: it raises)             *)
(*   partial  every payload send takes one byte instead of the whole chunk *)
(*   fail_at  the payload send call that fails, by returning 0 or by       *)
(*            raising (0: none does)                                       *)
(***************************************************************************)
SendBehaviours ==
    [hdr : {4, 2, None}, partial : BOOLEAN, fail_at : 0 .. 2]

GoodSend == [hdr |-> 4, partial |-> FALSE, fail_at |-> 0]

\* the chunk loop (lines 372-389): what it writes and whether it completes
RECURSIVE SendChunks(_, _, _, _)
SendChunks(compressed_data, total_sent, call, beh) ==
    IF total_sent >= Len(compressed_data)
    THEN [written |-> <<>>, ok |-> total_sent = Len(compressed_data)]
    ELSE LET chunk_end == Min(total_sent + CHUNK_SIZE, Len(compressed_data))
             chunk == Slice(compressed_data, total_sent, chunk_end)
             bytes_sent == IF beh.partial THEN 1 ELSE Len(chunk)
         IN  IF call = beh.fail_at
             THEN [written |-> <<>>, ok |-> FALSE]
             ELSE LET rest == SendChunks(compressed_data, total_sent + bytes_sent,
                                         call + 1, beh)
                  IN  [written |-> SubSeq(chunk, 1, bytes_sent) \o rest.written,
                       ok |-> rest.ok]

\* SendData with the size test after the header has been sent
SendData_HeaderFirst(sock, data_str, beh) ==
    LET data_bytes == Utf8Encode(data_str)
        compressed_data == ZlibCompress(data_bytes)
        size_header == ToBytes4(Len(compressed_data))
    IN  IF sock = None THEN [written |-> <<>>, ok |-> FALSE]
        ELSE IF Len(data_bytes) = 0 THEN [written |-> <<>>, ok |-> FALSE]
        ELSE IF beh.hdr = None THEN [written |-> <<>>, ok |-> FALSE]
        ELSE IF beh.hdr # 4 THEN [written |-> SubSeq(size_header, 1, beh.hdr), ok |-> FALSE]
        ELSE IF Len(compressed_data) > MAX_SEND_SIZE
             THEN [written |-> size_header, ok |-> FALSE]
        ELSE LET body == SendChunks(compressed_data, 0, 1, beh)
             IN  [written |-> size_header \o body.written, ok |-> body.ok]

\* send_data(data_str) on socket sock: the bytes it writes and its result
SendData(sock, data_str, beh) ==
    LET data_bytes == Utf8Encode(data_str)
        compressed_data == ZlibCompress(data_bytes)
        size_header == ToBytes4(Len(compressed_data))
    IN  IF sock = None THEN [written |-> <<>>, ok |-> FALSE]
        \* the debug line divides by len(data_bytes)
        ELSE IF Len(data_bytes) = 0 THEN [written |-> <<>>, ok |-> FALSE]
        ELSE IF Len(compressed_data) > MAX_SEND_SIZE THEN [written |-> <<>>, ok |-> FALSE]
        ELSE IF beh.hdr = None THEN [written |-> <<>>, ok |-> FALSE]
        ELSE IF beh.hdr # 4 THEN [written |-> SubSeq(size_header, 1, beh.hdr), ok |-> FALSE]
        ELSE LET body == SendChunks(compressed_data, 0, 1, beh)
             IN  [written |-> size_header \o body.written, ok |-> body.ok]

\* update_sync_stats without the byte count
update_sync_stats_NoBytes(stats, data_size, is_error) ==
    IF ~is_error
    THEN [stats EXCEPT !.packets_sent = @ + 1]
    ELSE [stats EXCEPT !.errors = @ + 1]

\* update_sync_stats assigning where the code adds
update_sync_stats_Assigns(stats, data_size, is_error) ==
    IF ~is_error
    THEN [stats EXCEPT !.packets_sent = 1, !.bytes_sent = data_size]
    ELSE [stats EXCEPT !.errors = 1]

\* update_sync_stats(data_size, is_error); the derived rate and its two
\* timestamps are left out of the model
update_sync_stats(stats, data_size, is_error) ==
    IF ~is_error
    THEN [stats EXCEPT !.packets_sent = @ + 1, !.bytes_sent = @ + data_size]
    ELSE [stats EXCEPT !.errors = @ + 1]

\* Changed without the comparison
Changed_Always(data_str) == TRUE

\* if data_str != last_data
Changed(data_str) == Some(data_str) # last_data

\* send_mesh_data() with the scene to serialize and its inputs (the socket's
\* behaviour, whether building the scene data raises and, for a scene with
\* an image texture, the world): the text it has built, the new last_data,
\* sync_stats, wire_out and texture_cache, the number of send_data calls and
\* what happened
send_mesh_data(s, x) ==
    LET image == SceneImage(s)
        t == extract_texture_data(image, IF image.linked THEN x.world ELSE <<>>,
                                  texture_cache)
        data_str == IF image.linked
                    THEN MaterialText(extract_material_data(t.ret))
                    ELSE SceneText(s)
        data_size == Len(Utf8Encode(data_str))
        r == SendData(tcp_socket, data_str, x.beh)
        same == [last_data |-> last_data, sync_stats |-> sync_stats,
                 wire_out |-> wire_out, calls |-> 0, res |-> "not_running",
                 text |-> <<>>, texture_cache |-> texture_cache, tex_log |-> tex_log]
        stats == [sync_stats EXCEPT !.textures_cached = @ + t.cached,
                                    !.textures_sent = @ + t.sent]
        built == [same EXCEPT !.sync_stats = stats,
                              !.text = Some(data_str),
                              !.texture_cache = t.cache,
                              !.tex_log = IF image.linked
                                          THEN Append(tex_log,
                                                      [image |-> image, world |-> x.world,
                                                       key |-> t.key, ret |-> t.ret,
                                                       read |-> t.read])
                                          ELSE tex_log]
    IN  IF ~is_server_running THEN same
        ELSE IF x.raises
             THEN [same EXCEPT !.sync_stats = update_sync_stats(sync_stats, 0, TRUE),
                               !.res = "error"]
        ELSE IF s = 0 THEN [same EXCEPT !.res = "no_mesh"]
        ELSE IF Changed(data_str)
             THEN IF r.ok
                  THEN [built EXCEPT !.last_data = Some(data_str),
                                     !.sync_stats = update_sync_stats(stats, data_size, FALSE),
                                     !.wire_out = wire_out \o r.written,
                                     !.calls = 1, !.res = "sent"]
                  ELSE [built EXCEPT !.wire_out = wire_out \o r.written, !.calls = 1,
                                     !.res = "send_failed"]
        ELSE [built EXCEPT !.res = "unchanged"]

\* the inputs of one publish that the bounds allow
PublishInputs ==
    { x \in [beh : SendBehaviours, raises : BOOLEAN] :
        /\ x.raises => (nerr < MaxErrors /\ x.beh = GoodSend)
        /\ x.beh.hdr # 4 => (~x.beh.partial /\ x.beh.fail_at = 0) }

\* the assignments of a handler that has called send_mesh_data
Published(op, s, x) ==
    \E r \in {send_mesh_data(s, x)} :
        /\ npub + r.calls <= MaxPublish
        /\ Len(r.tex_log) <= MaxTextures
        /\ texture_cache' = r.texture_cache
        /\ tex_log' = r.tex_log
        /\ last_data' = r.last_data
        /\ sync_stats' = r.sync_stats
        /\ wire_out' = r.wire_out
        /\ npub' = npub + r.calls
        /\ nerr' = IF r.res = "error" THEN nerr + 1 ELSE nerr
        /\ serialized' = IF r.text # <<>> THEN r.text ELSE serialized
        /\ ev' = [op |-> op, res |-> r.res]

(***************************************************************************)
(* The two triggers.  s is the scene as the handler finds it, x the inputs *)
(* of the publish it may make.                                             *)
(***************************************************************************)
\* GateVerdict without the cooldown test
GateVerdict_NoCooldown ==
    IF ~is_server_running THEN "not_running"
    ELSE IF is_applying_external_transform THEN "veto_applying"
    ELSE ""

\* the gate test both handlers start with: "" when the trigger may go on
GateVerdict ==
    IF ~is_server_running THEN "not_running"
    ELSE IF is_applying_external_transform THEN "veto_applying"
    ELSE IF now < external_transform_cooldown_end THEN "veto_cooldown"
    ELSE ""

\* Throttled with the interval itself throttled too
Throttled_Inclusive(time_since_last_sync, update_frequency) ==
    time_since_last_sync * update_frequency <= 1000

\* time_since_last_sync < min_interval, with min_interval = 1.0 / update_frequency
Throttled(time_since_last_sync, update_frequency) ==
    time_since_last_sync * update_frequency < 1000

depsgraph_update_handler(s, x) ==
    /\ registered /\ main_pc = "idle"
    /\ IF GateVerdict # ""
       THEN /\ ev' = [op |-> "depsgraph", res |-> GateVerdict]
            /\ UNCHANGED << last_data, sync_stats, wire_out, npub, nerr, serialized, tex,
                            last_depsgraph_sync_time >>
       ELSE IF Throttled(now - last_depsgraph_sync_time, settings.update_frequency)
       THEN /\ ev' = [op |-> "depsgraph", res |-> "throttled"]
            /\ UNCHANGED << last_data, sync_stats, wire_out, npub, nerr, serialized, tex,
                            last_depsgraph_sync_time >>
       ELSE /\ last_depsgraph_sync_time' = now
            /\ Published("depsgraph", s, x)
    /\ UNCHANGED << tcp_socket, is_server_running, last_frame_sync_time, receive_thread,
                    stop_receive_thread, received_transform_data,
                    is_applying_external_transform, external_transform_cooldown_end,
                    last_applied_transform, settings, now, timers, registered,
                    sock_connected, inbuf, peer_eof, nsock, thr, main_pc, join_deadline,
                    peer_stream, echoed, nframes, rx_log, applied_at, applied_session >>

frame_change_handler(s, x) ==
    /\ registered /\ main_pc = "idle"
    /\ IF GateVerdict # ""
       THEN /\ ev' = [op |-> "frame", res |-> GateVerdict]
            /\ UNCHANGED << last_data, sync_stats, wire_out, npub, nerr, serialized, tex,
                            last_frame_sync_time >>
       ELSE IF now - last_frame_sync_time >= frame_sync_throttle
       THEN /\ Published("frame", s, x)
            /\ last_frame_sync_time' = now
       ELSE /\ ev' = [op |-> "frame", res |-> "throttled"]
            /\ UNCHANGED << last_data, sync_stats, wire_out, npub, nerr, serialized, tex,
                            last_frame_sync_time >>
    /\ UNCHANGED << tcp_socket, is_server_running, last_depsgraph_sync_time,
                    receive_thread, stop_receive_thread, received_transform_data,
                    is_applying_external_transform, external_transform_cooldown_end,
                    last_applied_transform, settings, now, timers, registered,
                    sock_connected, inbuf, peer_eof, nsock, thr, main_pc, join_deadline,
                    peer_stream, echoed, nframes, rx_log, applied_at, applied_session >>

(***************************************************************************)
(* The gate: apply_transform_update and clear_external_transform_flag,     *)
(* both run by bpy.app.timers on the main thread.                          *)
(***************************************************************************)
COMMON_HOST == << now, registered, sock_connected, inbuf, peer_eof, wire_out, nsock, thr,
                  main_pc, join_deadline, peer_stream, echoed >>

\* ReceivedUpdate without the count
ReceivedUpdate_NoCount(doc) ==
    [last_received |-> now, object_name |-> JsonLoads(doc).objectName,
     doc |-> Some(doc),
     total_received |-> received_transform_data.total_received]

\* received_transform_data.update({...}) (lines 87-95); the field doc stands
\* for the position, rotation, scale and timestamp of the message
ReceivedUpdate(doc) ==
    [last_received |-> now, object_name |-> JsonLoads(doc).objectName,
     doc |-> Some(doc),
     total_received |-> received_transform_data.total_received + 1]

\* apply_transform_update(transform_data); rest is the timers that stay
\* registered.  The move of the object shows in the scene the next trigger
\* finds.
apply_transform_update(doc, rest) ==
    LET m == JsonLoads(doc)
        found == m.objectName = "Box"
    IN  IF m.fields = "bad_early"
        \* position.copy() raises while the arguments of update() are built
        THEN /\ is_applying_external_transform' = FALSE
             /\ timers' = rest
             /\ ev' = [op |-> "apply", res |-> "raised_early"]
             /\ UNCHANGED << received_transform_data, external_transform_cooldown_end,
                             last_applied_transform, applied_at, applied_session >>
        ELSE /\ received_transform_data' = ReceivedUpdate(doc)
             /\ external_transform_cooldown_end' = now + COOLDOWN_MS
             /\ last_applied_transform' = Some(doc)
             /\ applied_at' = now
             /\ applied_session' = NThreads
             /\ IF found /\ m.fields = "bad_late"
                \* obj.location = position raises: the except clause runs
                THEN /\ is_applying_external_transform' = FALSE
                     /\ timers' = rest
                     /\ ev' = [op |-> "apply", res |-> "raised_late"]
                ELSE /\ is_applying_external_transform' = TRUE
                     /\ timers' = Append(rest, [fn |-> "clear",
                                                due |-> now + CLEAR_DELAY_MS,
                                                msg |-> <<>>])
                     /\ ev' = [op |-> "apply", res |-> IF found THEN "applied" ELSE "not_found"]

\* clear_external_transform_flag that leaves the flag as it is
clear_external_transform_flag_Keep(rest) ==
    /\ timers' = rest
    /\ ev' = [op |-> "clear", res |-> ""]
    /\ UNCHANGED << is_applying_external_transform, received_transform_data,
                    external_transform_cooldown_end, last_applied_transform,
                    applied_at, applied_session >>

\* clear_external_transform_flag()
clear_external_transform_flag(rest) ==
    /\ is_applying_external_transform' = FALSE
    /\ timers' = rest
    /\ ev' = [op |-> "clear", res |-> ""]
    /\ UNCHANGED << received_transform_data, external_transform_cooldown_end,
                    last_applied_transform, applied_at, applied_session >>

RemoveAt(q, i) == SubSeq(q, 1, i - 1) \o SubSeq(q, i + 1, Len(q))

DueTimers == {i \in 1 .. Len(timers) : timers[i].due <= now}

\* bpy.app.timers runs, on the main thread, the first registered timer that
\* is due and removes it (both functions return None)
RunTimer ==
    /\ main_pc = "idle"
    /\ DueTimers # {}
    /\ LET i == CHOOSE j \in DueTimers : \A k \in DueTimers : j <= k
       IN  IF timers[i].fn = "apply"
           THEN apply_transform_update(timers[i].msg, RemoveAt(timers, i))
           ELSE clear_external_transform_flag(RemoveAt(timers, i))
    /\ UNCHANGED << tcp_socket, is_server_running, last_data, last_frame_sync_time,
                    last_depsgraph_sync_time, receive_thread, stop_receive_thread,
                    sync_stats, settings, COMMON_HOST, nframes, npub, nerr, rx_log,
                    serialized >>
    /\ UNCHANGED tex

(***************************************************************************)
(* The session operators and the host's reset handlers.                    *)
(***************************************************************************)
\* socket.close() and dropping the socket object: its buffers go with it
CloseSocket ==
    /\ tcp_socket' = None
    /\ sock_connected' = FALSE
    /\ inbuf' = <<>>
    /\ peer_eof' = FALSE
    /\ wire_out' = <<>>
    /\ peer_stream' = <<>>
    /\ echoed' = IF echoed = None THEN None ELSE 0

\* StartGuard without the test
StartGuard_Always == TRUE

\* if not is_server_running
StartGuard == ~is_server_running

\* StartResets without the reset of the statistics
StartResets_KeepStats ==
    /\ UNCHANGED sync_stats
    /\ received_transform_data' = InitReceived
    /\ is_applying_external_transform' = FALSE
    /\ external_transform_cooldown_end' = 0
    /\ last_applied_transform' = <<>>

\* the resets of a start that has connected (lines 1001-1029)
StartResets ==
    /\ sync_stats' = InitStats
    /\ received_transform_data' = InitReceived
    /\ is_applying_external_transform' = FALSE
    /\ external_transform_cooldown_end' = 0
    /\ last_applied_transform' = <<>>

\* ConnectFailed with the running flag set before connect() is called
ConnectFailed_Running ==
    /\ ev' = [op |-> "start", res |-> "CANCELLED"]
    /\ is_server_running' = TRUE
    /\ UNCHANGED << settings, sync_stats, received_transform_data,
                    is_applying_external_transform, external_transform_cooldown_end,
                    last_applied_transform, stop_receive_thread, receive_thread, thr >>

\* connect() raises: the except clause reports the error and returns
\* {"CANCELLED"}; none of lines 998-1034 has run
ConnectFailed ==
    /\ ev' = [op |-> "start", res |-> "CANCELLED"]
    /\ UNCHANGED << is_server_running, settings, sync_stats, received_transform_data,
                    is_applying_external_transform, external_transform_cooldown_end,
                    last_applied_transform, stop_receive_thread, receive_thread, thr >>

\* StartWebSyncServer.execute; connects says whether connect() succeeds
StartWebSyncServer(connects) ==
    /\ registered /\ main_pc = "idle"
    /\ IF ~StartGuard
       THEN /\ connects
            /\ ev' = [op |-> "start", res |-> "FINISHED"]
            /\ UNCHANGED << prog, sock_connected, inbuf, peer_eof, wire_out, nsock, thr,
                            peer_stream, echoed >>
       ELSE /\ nsock < MaxSockets
            /\ nsock' = nsock + 1
            /\ tcp_socket' = nsock + 1
            /\ sock_connected' = connects
            /\ inbuf' = <<>>
            /\ peer_eof' = FALSE
            /\ wire_out' = <<>>
            /\ peer_stream' = <<>>
            /\ echoed' = IF echoed = None THEN None ELSE 0
            /\ IF connects
               THEN /\ NThreads < MaxThreads
                    /\ is_server_running' = TRUE
                    /\ settings' = [settings EXCEPT !.is_running = TRUE]
                    /\ StartResets
                    /\ stop_receive_thread' = FALSE
                    /\ receive_thread' = NThreads + 1
                    /\ thr' = [thr EXCEPT ![NThreads + 1] = NewThread]
                    /\ ev' = [op |-> "start", res |-> "FINISHED"]
               ELSE ConnectFailed
            /\ UNCHANGED << last_data, last_frame_sync_time, last_depsgraph_sync_time >>
    /\ UNCHANGED << now, timers, registered, main_pc, join_deadline,
                    nframes, npub, nerr, rx_log, applied_at, applied_session, serialized >>
    /\ UNCHANGED tex

\* socket.close() raises OSError: the descriptor is released all the same, and
\* the assignment tcp_socket = None that follows is not reached
CloseSocketRaises ==
    /\ sock_connected' = FALSE
    /\ inbuf' = <<>>
    /\ peer_eof' = FALSE
    /\ wire_out' = <<>>
    /\ peer_stream' = <<>>
    /\ echoed' = IF echoed = None THEN None ELSE 0
    /\ UNCHANGED tcp_socket

\* StopClose without the test of tcp_socket: None.close() raises
StopClose_Unguarded(close_ok) ==
    /\ IF tcp_socket # None
       THEN /\ close_ok
            /\ CloseSocket
            /\ ev' = [op |-> "stop", res |-> "FINISHED"]
       ELSE /\ close_ok
            /\ UNCHANGED << tcp_socket, sock_connected, inbuf, peer_eof, wire_out,
                            peer_stream, echoed >>
            /\ ev' = [op |-> "stop", res |-> "raised"]
    /\ main_pc' = "idle"

\* lines 1063-1069 of StopWebSyncServer.execute; close_ok says whether
\* tcp_socket.close() returns: when it raises, the exception leaves execute
StopClose(close_ok) ==
    /\ IF tcp_socket # None
       THEN IF close_ok
            THEN /\ CloseSocket
                 /\ ev' = [op |-> "stop", res |-> "FINISHED"]
            ELSE /\ CloseSocketRaises
                 /\ ev' = [op |-> "stop", res |-> "raised"]
       ELSE /\ close_ok
            /\ UNCHANGED << tcp_socket, sock_connected, inbuf, peer_eof, wire_out,
                            peer_stream, echoed >>
            /\ ev' = [op |-> "stop", res |-> "FINISHED"]
    /\ main_pc' = "idle"

\* StopWebSyncServer.execute up to the join: when the thread is alive the
\* main thread blocks in join and StopJoined finishes the operator
StopWebSyncServer(close_ok) ==
    /\ registered /\ main_pc = "idle"
    /\ is_server_running' = FALSE
    /\ settings' = [settings EXCEPT !.is_running = FALSE]
    /\ stop_receive_thread' = TRUE
    /\ IF Alive(receive_thread)
       THEN /\ close_ok
            /\ main_pc' = "joining"
            /\ join_deadline' = now + JOIN_TIMEOUT_MS
            /\ ev' = [op |-> "stop", res |-> "joining"]
            /\ UNCHANGED << tcp_socket, sock_connected, inbuf, peer_eof, wire_out,
                            peer_stream, echoed >>
       ELSE /\ StopClose(close_ok)
            /\ UNCHANGED join_deadline
    /\ UNCHANGED << last_data, last_frame_sync_time, last_depsgraph_sync_time,
                    receive_thread, received_transform_data,
                    is_applying_external_transform, external_transform_cooldown_end,
                    last_applied_transform, sync_stats, now, timers, registered,
                    nsock, thr, nframes, npub, nerr, rx_log, applied_at, applied_session, serialized >>
    /\ UNCHANGED tex

\* JoinReturns with a join that does not wait
JoinReturns_NoWait == TRUE

\* receive_thread.join(timeout=2.0) returns
JoinReturns == ~Alive(receive_thread) \/ now >= join_deadline

StopJoined(close_ok) ==
    /\ main_pc = "joining"
    /\ JoinReturns
    /\ StopClose(close_ok)
    /\ UNCHANGED << is_server_running, last_data, last_frame_sync_time,
                    last_depsgraph_sync_time, receive_thread, stop_receive_thread,
                    received_transform_data, is_applying_external_transform,
                    external_transform_cooldown_end, last_applied_transform, sync_stats,
                    settings, now, timers, registered, nsock, thr, join_deadline,
                    nframes, npub, nerr, rx_log, applied_at, applied_session, serialized >>
    /\ UNCHANGED tex

\* the assignments load_handler and unregister share
ResetGlobals ==
    /\ is_server_running' = FALSE
    /\ stop_receive_thread' = TRUE
    /\ IF tcp_socket # None
       THEN CloseSocket
       ELSE UNCHANGED << tcp_socket, sock_connected, inbuf, peer_eof, wire_out,
                         peer_stream, echoed >>

\* load_handler, after a file has been loaded; loading removes the timers,
\* none of which is registered persistent
load_handler ==
    /\ registered /\ main_pc = "idle"
    /\ ResetGlobals
    /\ settings' = [settings EXCEPT !.is_running = FALSE]
    /\ timers' = <<>>
    /\ ev' = [op |-> "load", res |-> ""]
    /\ UNCHANGED << last_data, last_frame_sync_time, last_depsgraph_sync_time,
                    receive_thread, received_transform_data,
                    is_applying_external_transform, external_transform_cooldown_end,
                    last_applied_transform, sync_stats, now, registered, nsock, thr,
                    main_pc, join_deadline, nframes, npub, nerr, rx_log, applied_at,
                    applied_session, serialized >>
    /\ UNCHANGED tex

\* unregister(): the handlers and the operators are gone afterwards
unregister ==
    /\ registered /\ main_pc = "idle"
    /\ ResetGlobals
    /\ registered' = FALSE
    /\ ev' = [op |-> "unregister", res |-> ""]
    /\ UNCHANGED << last_data, last_frame_sync_time, last_depsgraph_sync_time,
                    receive_thread, received_transform_data,
                    is_applying_external_transform, external_transform_cooldown_end,
                    last_applied_transform, sync_stats, settings, now, timers,
                    nsock, thr, main_pc, join_deadline, nframes, npub, nerr, rx_log,
                    applied_at, applied_session, serialized >>
    /\ UNCHANGED tex

(***************************************************************************)
(* The environment: the user's settings, the clock and the peer.           *)
(***************************************************************************)
\* the update frequencies the user sets in the panel
RateFreqs == {10, 20}

\* the user edits WebSyncSettings.update_frequency
SetFrequency(f) ==
    /\ registered /\ main_pc = "idle"
    /\ f # settings.update_frequency
    /\ settings' = [settings EXCEPT !.update_frequency = f]
    /\ UNCHANGED << tcp_socket, is_server_running, last_data, last_frame_sync_time,
                    last_depsgraph_sync_time, receive_thread, stop_receive_thread,
                    received_transform_data, is_applying_external_transform,
                    external_transform_cooldown_end, last_applied_transform,
                    sync_stats, host, hist >>
    /\ UNCHANGED tex

Tick(d) ==
    /\ now + d <= Epoch + MaxTime
    /\ now' = now + d
    /\ UNCHANGED << prog, hist, timers, registered, sock_connected, inbuf,
                    peer_eof, wire_out, nsock, thr, main_pc, join_deadline, peer_stream,
                    echoed >>
    /\ UNCHANGED tex

\* a frame as the peer builds it: 4-byte big-endian length, then the UTF-8
\* text, not compressed
PlainFrame(doc) == ToBytes4(Len(Utf8Encode(doc))) \o Utf8Encode(doc)

PeerFrames == { PlainFrame(d) : d \in {DocT, DocU, DocM, DocL, DocO} }

Connected == tcp_socket # None /\ sock_connected

\* the peer sends one whole frame
PeerSendFrame(f) ==
    /\ Connected /\ ~peer_eof
    /\ nframes < MaxFrames
    /\ nframes' = nframes + 1
    /\ inbuf' = inbuf \o f
    /\ UNCHANGED << prog, now, timers, registered, sock_connected, peer_eof,
                    wire_out, nsock, thr, main_pc, join_deadline, peer_stream, echoed,
                    npub, nerr, rx_log, ev, applied_at, applied_session, serialized >>
    /\ UNCHANGED tex

\* the peer closes the connection
PeerClose ==
    /\ Connected /\ ~peer_eof
    /\ peer_eof' = TRUE
    /\ UNCHANGED << prog, hist, now, timers, registered, sock_connected, inbuf,
                    wire_out, nsock, thr, main_pc, join_deadline, peer_stream, echoed >>
    /\ UNCHANGED tex

\* the peer queues a stream of bytes to send
PeerPlan(st) ==
    /\ Connected /\ ~peer_eof
    /\ echoed = None
    /\ peer_stream = <<>>
    /\ nframes < MaxFrames
    /\ nframes' = nframes + 1
    /\ peer_stream' = st
    /\ UNCHANGED << prog, now, timers, registered, sock_connected, inbuf, peer_eof,
                    wire_out, nsock, thr, main_pc, join_deadline, echoed,
                    npub, nerr, rx_log, ev, applied_at, applied_session, serialized >>
    /\ UNCHANGED tex

\* the next n bytes of the peer's stream arrive
PeerDeliver(n) ==
    /\ Connected /\ ~peer_eof
    /\ n >= 1 /\ n <= Len(peer_stream)
    /\ inbuf' = inbuf \o SubSeq(peer_stream, 1, n)
    /\ peer_stream' = SubSeq(peer_stream, n + 1, Len(peer_stream))
    /\ UNCHANGED << prog, hist, now, timers, registered, sock_connected, peer_eof,
                    wire_out, nsock, thr, main_pc, join_deadline, echoed >>
    /\ UNCHANGED tex

\* an echoing peer sends back the next n bytes it has received
PeerEcho(n) ==
    /\ Connected /\ ~peer_eof
    /\ echoed # None
    /\ n >= 1 /\ echoed + n <= Len(wire_out)
    /\ inbuf' = inbuf \o SubSeq(wire_out, echoed + 1, echoed + n)
    /\ echoed' = echoed + n
    /\ UNCHANGED << prog, hist, now, timers, registered, sock_connected, peer_eof,
                    wire_out, nsock, thr, main_pc, join_deadline, peer_stream >>
    /\ UNCHANGED tex

(***************************************************************************)
(* The engine: every operation, the peer sending whole frames.             *)
(***************************************************************************)
GoodInput == [beh |-> GoodSend, raises |-> FALSE]

ThreadStep == \E t \in ThreadIds : T_Loop(t) \/ T_Header(t) \/ T_Body(t)

\* a trigger of either kind, its publish (if any) going through
GateTrigger ==
    \E s \in 1 .. 2 :
        depsgraph_update_handler(s, GoodInput) \/ frame_change_handler(s, GoodInput)

GateFrames == { PlainFrame(d) : d \in {DocT} }

Next ==
    \/ \E c \in BOOLEAN : StartWebSyncServer(c)
    \/ StopWebSyncServer(TRUE)
    \/ StopJoined(TRUE)
    \/ load_handler
    \/ unregister
    \/ GateTrigger
    \/ RunTimer
    \/ ThreadStep
    \/ \E f \in GateFrames : PeerSendFrame(f)
    \/ PeerClose
    \/ Tick(SessionTickMs)

Spec == Init /\ [][Next]_vars

(***************************************************************************)
(* The gate: sessions, inbound transforms, the timers, both triggers and   *)
(* a coarse clock.                                                         *)
(***************************************************************************)
NextGate ==
    \/ StartWebSyncServer(TRUE)
    \/ StopWebSyncServer(TRUE)
    \/ StopJoined(TRUE)
    \/ GateTrigger
    \/ RunTimer
    \/ ThreadStep
    \/ \E f \in GateFrames : PeerSendFrame(f)
    \/ Tick(GateTickMs)

SpecGate == Init /\ [][NextGate]_vars

(***************************************************************************)
(* Stopping: sessions that are stopped while the peer sends, is silent or   *)
(* has closed, close() returning or raising.                               *)
(***************************************************************************)
NextStop ==
    \/ StartWebSyncServer(TRUE)
    \/ \E close_ok \in BOOLEAN : StopWebSyncServer(close_ok)
    \/ \E close_ok \in BOOLEAN : StopJoined(close_ok)
    \/ ThreadStep
    \/ \E f \in GateFrames : PeerSendFrame(f)
    \/ PeerClose
    \/ Tick(SessionTickMs)

SpecStop == Init /\ [][NextStop]_vars

(***************************************************************************)
(* Inbound transforms: sessions whose peer sends two frames, one after the *)
(* other or together, with the timers, stop and the load of a file.        *)
(***************************************************************************)
InboundStreams ==
    { PlainFrame(DocT) \o PlainFrame(DocU),
      PlainFrame(DocU) \o PlainFrame(DocT),
      PlainFrame(DocM) \o PlainFrame(DocT) }

\* the first frame of the peer's stream arrives, or all of the stream
DeliverFrames ==
    \E n \in {Len(PlainFrame(DocT)), Len(peer_stream)} : PeerDeliver(n)

NextInbound ==
    \/ StartWebSyncServer(TRUE)
    \/ StopWebSyncServer(TRUE)
    \/ StopJoined(TRUE)
    \/ load_handler
    \/ RunTimer
    \/ ThreadStep
    \/ \E st \in InboundStreams : PeerPlan(st)
    \/ DeliverFrames
    \/ Tick(SessionTickMs)

SpecInbound == Init /\ [][NextInbound]_vars

(***************************************************************************)
(* The throttles: one session, both triggers, the frequency set to 10 or   *)
(* 20 Hz and a clock fine enough to fall inside and on the intervals.      *)
(***************************************************************************)
\* a trigger of either kind on one scene, its publish (if any) going through
RateTrigger ==
    depsgraph_update_handler(1, GoodInput) \/ frame_change_handler(1, GoodInput)

NextRate ==
    \/ StartWebSyncServer(TRUE)
    \/ \E f \in RateFreqs : SetFrequency(f)
    \/ RateTrigger
    \/ Tick(RateTickMs)

SpecRate == Init /\ [][NextRate]_vars

(***************************************************************************)
(* Textures: one session that publishes scenes whose material has an image *)
(* texture, the file behind the image changing between the publishes.      *)
(***************************************************************************)
\* the worlds that make a difference to the image: the file system for an
\* image that is a file, the .blend file for a relative path
WorldsOf(image) ==
    { w \in Worlds :
        /\ image.filepath = <<>> => w = [blend_file |-> <<>>, file |-> CHOOSE f \in FileStates : ~f.exists]
        /\ ~IsBlendRelative(image.filepath) => w.blend_file = <<>> }

\* a scene-change trigger on a scene with an image texture, its send going
\* through
TextureTrigger ==
    \E s \in TexturedScenes :
        \E w \in WorldsOf(SceneImage(s)) :
            depsgraph_update_handler(s, [beh |-> GoodSend, raises |-> FALSE, world |-> w])

NextTexture ==
    \/ StartWebSyncServer(TRUE)
    \/ TextureTrigger
    \/ Tick(SessionTickMs)

SpecTexture == Init /\ [][NextTexture]_vars

(***************************************************************************)
(* The publish path: both triggers with every scene and every behaviour of *)
(* the socket, in one session with a silent peer.                          *)
(***************************************************************************)
PublishTrigger ==
    \E s \in Scenes, x \in PublishInputs :
        depsgraph_update_handler(s, x) \/ frame_change_handler(s, x)

NextPublish ==
    \/ StartWebSyncServer(TRUE)
    \/ PublishTrigger
    \/ Tick(SessionTickMs)

SpecPublish == Init /\ [][NextPublish]_vars

(***************************************************************************)
(* The wire: one session whose peer either echoes what it receives or      *)
(* sends one stream of its own, the bytes arriving in pieces of any size.  *)
(***************************************************************************)
InitWire ==
    /\ InitProgram
    /\ peer_stream = <<>>
    /\ echoed \in {None, 0}

\* what the peer may send: frames above the inbound limit (by one byte, and
\* by the largest header), well-formed frames, a JSON number, an empty
\* payload, broken JSON, a two-byte character, broken UTF-8, nesting that is
\* too deep
WireStreams ==
    { ToBytes4(MAX_RECV_SIZE + 1) \o << 123, 84, 125, 32, 32, 32 >>,
      << 127, 255, 255, 255 >> \o PlainFrame(DocT),
      PlainFrame(DocT) \o PlainFrame(DocO),
      PlainFrame(DocNum),
      ToBytes4(0) \o PlainFrame(<< 123 >>),
      PlainFrame(<< 123, 233, 125 >>),
      ToBytes4(2) \o << 195, 40 >>,
      PlainFrame(DocDeep) \o PlainFrame(DocT) }

\* sends that all complete, in whole chunks or byte by byte
WireInputs == { GoodInput, [GoodInput EXCEPT !.beh.partial = TRUE] }

WireTrigger ==
    \E s \in 1 .. 3, x \in WireInputs :
        depsgraph_update_handler(s, x) \/ frame_change_handler(s, x)

NextWire ==
    \/ StartWebSyncServer(TRUE)
    \/ WireTrigger
    \/ ThreadStep
    \/ \E st \in WireStreams : PeerPlan(st)
    \/ \E n \in 1 .. Len(peer_stream) : PeerDeliver(n)
    \/ \E n \in 1 .. Len(wire_out) : PeerEcho(n)
    \/ PeerClose

SpecWire == InitWire /\ [][NextWire]_vars

(***************************************************************************)
(* Joining: the sessions of SpecStop, with the time the main thread spends *)
(* inside join while the inbound thread does not return.                   *)
(***************************************************************************)
\* time passes while the main thread is blocked in join, for the calls of
\* stop made before the clock stops
JoinWait(d) ==
    /\ main_pc = "joining"
    /\ now < join_deadline
    /\ join_deadline <= Epoch + MaxTime + JOIN_TIMEOUT_MS
    /\ now' = now + d
    /\ UNCHANGED << prog, hist, timers, registered, sock_connected, inbuf,
                    peer_eof, wire_out, nsock, thr, main_pc, join_deadline, peer_stream,
                    echoed >>
    /\ UNCHANGED tex

NextJoin ==
    \/ StartWebSyncServer(TRUE)
    \/ \E close_ok \in BOOLEAN : StopWebSyncServer(close_ok)
    \/ \E close_ok \in BOOLEAN : StopJoined(close_ok)
    \/ ThreadStep
    \/ \E f \in GateFrames : PeerSendFrame(f)
    \/ PeerClose
    \/ Tick(SessionTickMs)
    \/ JoinWait(SessionTickMs)

SpecJoin == Init /\ [][NextJoin]_vars

\* the same, each inbound thread being scheduled: a step it can take, it
\* takes (a recv that has nothing to return is a step it cannot take yet)
SpecCancel ==
    /\ Init /\ [][NextJoin]_vars
    /\ \A t \in ThreadIds : WF_vars(T_Loop(t) \/ T_Header(t) \/ T_Body(t))

(***************************************************************************)
(* The statistics: sessions that are started, stopped and started again,   *)
(* with the load of a file and unregister, publishing two scenes of        *)
(* different sizes and a scene with an image texture, a publish going      *)
(* through or raising.                                                     *)
(***************************************************************************)
StatsInputs ==
    { x \in [beh : {GoodSend}, raises : BOOLEAN] : x.raises => nerr < MaxErrors }

\* the file of the image is absent, or is there with the same bytes
StatsWorlds ==
    { w \in WorldsOf(SceneImage(4)) :
        w.file.exists => (w.file.readable /\ w.file.data = << 7 >>) }

\* a trigger of either kind on a scene without a texture, or a scene-change
\* trigger on the scene whose image is a file
StatsTrigger ==
    \/ \E s \in 1 .. 2, x \in StatsInputs :
          depsgraph_update_handler(s, x) \/ frame_change_handler(s, x)
    \/ \E w \in StatsWorlds :
          depsgraph_update_handler(4, [beh |-> GoodSend, raises |-> FALSE, world |-> w])

\* the inbound thread of a session whose peer sends nothing: it never has a
\* header to go on from
SilentThreadStep == \E t \in ThreadIds : T_Loop(t) \/ T_Header(t)

NextStats ==
    \/ \E c \in BOOLEAN : StartWebSyncServer(c)
    \/ StopWebSyncServer(TRUE)
    \/ StopJoined(TRUE)
    \/ load_handler
    \/ unregister
    \/ StatsTrigger
    \/ SilentThreadStep
    \/ Tick(SessionTickMs)

SpecStats == Init /\ [][NextStats]_vars

(***************************************************************************)
(* Dispatch: sessions whose peer sends a transform update and a message of *)
(* another type or of none, in either order, with the timers and stop.     *)
(***************************************************************************)
DispatchStreams ==
    { PlainFrame(DocO) \o PlainFrame(DocT),
      PlainFrame(DocT) \o PlainFrame(DocO),
      PlainFrame(DocEmpty) \o PlainFrame(DocT) }

NextDispatch ==
    \/ StartWebSyncServer(TRUE)
    \/ StopWebSyncServer(TRUE)
    \/ StopJoined(TRUE)
    \/ RunTimer
    \/ ThreadStep
    \/ \E st \in DispatchStreams : PeerPlan(st)
    \/ DeliverFrames
    \/ Tick(SessionTickMs)

SpecDispatch == Init /\ [][NextDispatch]_vars

(***************************************************************************)
(* Alignment: one session whose peer sends well-formed frames, one of them *)
(* longer than the inbound limit, the bytes arriving in pieces of any size.*)
(***************************************************************************)
\* a frame whose payload is one byte longer than the inbound limit and a
\* transform update behind it; two transform updates
AlignStreams ==
    { ToBytes4(MAX_RECV_SIZE + 1) \o << 123, 84, 125, 32, 32, 32 >> \o PlainFrame(DocT),
      PlainFrame(DocT) \o PlainFrame(DocU) }

NextAlign ==
    \/ StartWebSyncServer(TRUE)
    \/ ThreadStep
    \/ \E st \in AlignStreams : PeerPlan(st)
    \/ \E n \in 1 .. Len(peer_stream) : PeerDeliver(n)
    \/ PeerClose

SpecAlign == Init /\ [][NextAlign]_vars

(***************************************************************************)
(* Framing under interruption: sessions whose peer sends one stream of two *)
(* frames, the bytes arriving in pieces of any size, with a stop or a      *)
(* close by the peer at any point of the stream.                           *)
(***************************************************************************)
\* two transform updates; a payload longer than one chunk, then an update
FrameStreams ==
    { PlainFrame(DocT) \o PlainFrame(DocU),
      PlainFrame(<< 123, 34, 34, 58, 49 >>) \o PlainFrame(DocT) }

\* the next bytes of the peer's stream arrive, any number of them
DeliverPieces == \E n \in 1 .. Len(peer_stream) : PeerDeliver(n)

NextFrame ==
    \/ StartWebSyncServer(TRUE)
    \/ StopWebSyncServer(TRUE)
    \/ StopJoined(TRUE)
    \/ ThreadStep
    \/ \E st \in FrameStreams : PeerPlan(st)
    \/ DeliverPieces
    \/ PeerClose

SpecFrame == Init /\ [][NextFrame]_vars

(***************************************************************************)
(* The gate over time: the operations of SpecGate and the load of a file,   *)
(* with a clock that goes on while a cooldown deadline is ahead.  The host runs the timers that   *)
(* are due and the threads are scheduled: these steps, the clock and the   *)
(* return of join are taken when they stay possible.                       *)
(***************************************************************************)
\* time passes: up to the end of the run, and beyond it up to the deadline
Advance(d) ==
    /\ now + d <= Epoch + MaxTime \/ now < external_transform_cooldown_end
    /\ now' = now + d
    /\ UNCHANGED << prog, hist, timers, registered, sock_connected, inbuf,
                    peer_eof, wire_out, nsock, thr, main_pc, join_deadline, peer_stream,
                    echoed >>
    /\ UNCHANGED tex

NextReopen ==
    \/ StartWebSyncServer(TRUE)
    \/ StopWebSyncServer(TRUE)
    \/ StopJoined(TRUE)
    \/ load_handler
    \/ RateTrigger
    \/ RunTimer
    \/ ThreadStep
    \/ \E f \in GateFrames : PeerSendFrame(f)
    \/ Advance(GateTickMs)

SpecReopen ==
    /\ Init /\ [][NextReopen]_vars
    /\ WF_vars(RunTimer)
    /\ WF_vars(ThreadStep)
    /\ WF_vars(StopJoined(TRUE))
    /\ WF_vars(Advance(GateTickMs))

(***************************************************************************)
(* Properties.                                                             *)
(***************************************************************************)
Vetoes == {"veto_applying", "veto_cooldown"}

PublishState == << wire_out, last_data, sync_stats, last_depsgraph_sync_time,
                   last_frame_sync_time >>

\* C1 as claimed: once a transform has armed the gate at time t, every
\* trigger before t + 1.0 s writes nothing and leaves the last-sent text, the
\* stats and the rate-limit timestamps alone, and a trigger at or after
\* t + 1.0 s with the applying flag clear is not vetoed.
C1_VetoWithinOneSecond ==
    [][ /\ (GateTrigger /\ applied_at # None /\ now < applied_at + 1000)
            => UNCHANGED PublishState
        /\ (GateTrigger /\ applied_at # None /\ now >= applied_at + 1000
              /\ is_server_running /\ ~is_applying_external_transform)
            => ev'.res \notin Vetoes ]_vars

\* C1 amended: the same, for the triggers of the session the transform was
\* applied in (no successful start since, which resets the gate).
C1_VetoWithinOneSecondOfSession ==
    [][ /\ (GateTrigger /\ applied_at # None /\ now < applied_at + 1000
              /\ applied_session = NThreads)
            => UNCHANGED PublishState
        /\ (GateTrigger /\ applied_at # None /\ now >= applied_at + 1000
              /\ is_server_running /\ ~is_applying_external_transform)
            => ev'.res \notin Vetoes ]_vars

\* a trigger has been vetoed by the cooldown alone, inside the window
C1_Witness ==
    /\ ev.op \in {"depsgraph", "frame"}
    /\ ev.res = "veto_cooldown"
    /\ is_server_running
    /\ applied_at # None
    /\ now < applied_at + 1000
    /\ applied_session = NThreads

(***************************************************************************)
(* Properties of the session operators, under Spec.                        *)
(***************************************************************************)
\* what a session consists of: the socket, the inbound thread, the stats,
\* the received-transform record and the gate
SessionState == << tcp_socket, sock_connected, nsock, receive_thread, thr,
                   stop_receive_thread, is_server_running, sync_stats,
                   received_transform_data, is_applying_external_transform,
                   external_transform_cooldown_end, last_applied_transform >>

StartWhileRunning == is_server_running /\ \E c \in BOOLEAN : StartWebSyncServer(c)

\* C7 as claimed: start while the running flag is true ends in an error
\* outcome, not in success, and leaves the socket, the inbound thread, the
\* stats, the received-transform record and the gate unchanged.
C7_StartWhileRunningFails ==
    [][ StartWhileRunning => (ev'.res # "FINISHED" /\ UNCHANGED SessionState) ]_vars

\* C7 amended: start while the running flag is true returns {"FINISHED"},
\* the outcome of a successful start, and changes nothing of the session.
C7_StartWhileRunningIsNoOp ==
    [][ StartWhileRunning
          => (ev' = [op |-> "start", res |-> "FINISHED"] /\ UNCHANGED SessionState) ]_vars

\* start has returned on a running session that had already published
C7_Witness ==
    /\ ev = [op |-> "start", res |-> "FINISHED"]
    /\ is_server_running
    /\ sync_stats.packets_sent > 0

C9_ConnectFailureIsSurfaced ==
    [][ /\ (~is_server_running /\ StartWebSyncServer(FALSE))
            => /\ ev' = [op |-> "start", res |-> "CANCELLED"]
               /\ ~is_server_running'
               /\ UNCHANGED << thr, receive_thread >>
               /\ nsock' = nsock + 1
        /\ nsock' # nsock => \E c \in BOOLEAN : StartWebSyncServer(c) ]_vars

\* a start has failed to connect
C9_Witness ==
    /\ ev = [op |-> "start", res |-> "CANCELLED"]
    /\ ~is_server_running
    /\ nsock > 0
    /\ ~sock_connected

\* this step is a call of the stop operator
StopCalled == \E close_ok \in BOOLEAN : StopWebSyncServer(close_ok)

\* C10: stop on an engine that was never started returns {"FINISHED"} and
\* leaves it not running with no socket; a stop right after a stop returns
\* {"FINISHED"} and changes nothing.
C10_StopIsIdempotent ==
    [][ /\ (nsock = 0 /\ StopCalled)
            => /\ ev' = [op |-> "stop", res |-> "FINISHED"]
               /\ main_pc' = "idle"
               /\ ~is_server_running'
               /\ tcp_socket' = None
        /\ (ev = [op |-> "stop", res |-> "FINISHED"] /\ StopCalled)
            => /\ ev' = ev
               /\ UNCHANGED << prog, timers, sock_connected, inbuf, peer_eof,
                               wire_out, thr, main_pc >> ]_vars

\* stop has returned on an engine that was never started
C10_Witness ==
    /\ ev = [op |-> "stop", res |-> "FINISHED"]
    /\ nsock = 0
    /\ tcp_socket = None
    /\ ~is_server_running

(***************************************************************************)
(* Properties of stopping, under SpecStop.                                 *)
(***************************************************************************)
\* this step is the stop operator returning to its caller
StopReturns ==
    /\ main_pc' = "idle"
    /\ \E close_ok \in BOOLEAN : StopWebSyncServer(close_ok) \/ StopJoined(close_ok)

\* C11: whenever the stop operator returns, close() having failed or not, it
\* returns {"FINISHED"} and the engine is not running and holds no socket.
C11_StopAlwaysSucceeds ==
    [][ StopReturns
            => /\ ev' = [op |-> "stop", res |-> "FINISHED"]
               /\ ~is_server_running'
               /\ tcp_socket' = None ]_vars

\* this step is the inbound thread t returning from receive_messages because
\* recv has returned b"" or raised (lines 155-157, 161-163, 183-185, 192-194)
LoopEnds(t) ==
    /\ thr[t].pc \in {"hdr", "body"}
    /\ ~stop_receive_thread
    /\ Recv(1).kind \in {"closed", "error"}
    /\ T_Header(t) \/ T_Body(t)

\* the inbound thread of the session has returned while the session was on
LoopEnded ==
    /\ receive_thread # None
    /\ thr[receive_thread] = DeadThread
    /\ ~stop_receive_thread
    /\ tcp_socket # None

\* C12: when the inbound loop ends on a closed connection or a read error,
\* the engine is left not running and without a socket, and a start called
\* afterwards opens a new socket and starts a new inbound thread.
C12_ClosedConnectionIsDropped ==
    [][ /\ (\E t \in ThreadIds : LoopEnds(t))
            => /\ ~is_server_running'
               /\ tcp_socket' = None
        /\ (LoopEnded /\ StartWebSyncServer(TRUE))
            => /\ tcp_socket' # tcp_socket
               /\ receive_thread' # receive_thread ]_vars

(***************************************************************************)
(* Properties of the inbound loop, under SpecWire.                         *)
(***************************************************************************)
\* the payload d cannot be decoded as UTF-8 or cannot be parsed as JSON
Unparsable(d) ==
    \/ ~Utf8Decode(d).ok
    \/ JsonLoads(Utf8Decode(d).text).kind \in {"error", "recursion"}

\* this step is the inbound thread t finishing a payload read whole
PayloadRead(t) ==
    /\ thr[t].pc = "body"
    /\ Len(thr[t].message_data) = thr[t].message_size
    /\ T_Body(t)

\* C13: a payload read whole that cannot be decoded or parsed is dropped with
\* no hand-off registered, and the inbound thread goes on to the next frame.
C13_UnparsablePayloadIsDropped ==
    [][ \A t \in ThreadIds :
          (PayloadRead(t) /\ Unparsable(thr[t].message_data))
            => /\ timers' = timers
               /\ thr'[t] = NewThread ]_vars

(***************************************************************************)
(* Properties of the hand-off to the main thread, under SpecInbound.       *)
(***************************************************************************)
\* the text is a transform_update message with well-formed fields
WellFormedUpdate(text) ==
    LET m == JsonLoads(text)
    IN  m.kind = "dict" /\ m.type = "transform_update" /\ m.fields = "ok"

\* the number of registered timers that will call apply_transform_update
\* with a well-formed message
ApplyTimers(q) ==
    Cardinality({i \in 1 .. Len(q) : q[i].fn = "apply" /\ WellFormedUpdate(q[i].msg)})

TotalReceived == received_transform_data.total_received

\* this step is one call of apply_transform_update by a timer, which is
\* removed; on a well-formed message it records the object name and the
\* fields of that message and adds one to total_received
AppliesOnce ==
    /\ ev'.op = "apply"
    /\ RunTimer
    /\ ApplyTimers(timers') = ApplyTimers(timers) - 1
    /\ \E i \in DueTimers :
          /\ timers[i].fn = "apply"
          /\ RemoveAt(timers, i) = SubSeq(timers', 1, Len(timers) - 1)
          /\ WellFormedUpdate(timers[i].msg)
                => /\ received_transform_data'.object_name = JsonLoads(timers[i].msg).objectName
                   /\ received_transform_data'.doc = Some(timers[i].msg)
                   /\ TotalReceived' = TotalReceived + 1

\* this step registers exactly one call of apply_transform_update, with the
\* message the inbound thread t has just read
Dispatches(t) ==
    timers' = Append(timers, [fn |-> "apply", due |-> now + APPLY_DELAY_MS,
                              msg |-> Utf8Decode(thr[t].message_data).text])

\* the steps that register a call, and the steps that change the count
HandOff ==
    /\ \A t \in ThreadIds :
          (PayloadRead(t) /\ Utf8Decode(thr[t].message_data).ok
             /\ WellFormedUpdate(Utf8Decode(thr[t].message_data).text))
            => Dispatches(t)
    /\ ApplyTimers(timers') > ApplyTimers(timers)
            => \E t \in ThreadIds : PayloadRead(t) /\ Dispatches(t)
    /\ TotalReceived' # TotalReceived
            => \/ AppliesOnce
               \/ ev'.op = "start" /\ TotalReceived' = 0

\* C14 as claimed: every well-formed transform_update frame read by the
\* inbound loop registers one call of apply_transform_update; every
\* registered call is made exactly once, with the message's object name and
\* fields, and adds exactly one to total_received.
C14_EveryFrameAppliedOnce ==
    [][ /\ HandOff
        /\ ApplyTimers(timers') < ApplyTimers(timers) => AppliesOnce ]_vars

\* C14 amended: the same, except that the load of a file removes the calls
\* that are registered and not yet made; total_received counts the calls
\* made since the last start.
C14_EveryFrameAppliedOnceUnlessFileLoaded ==
    [][ /\ HandOff
        /\ ApplyTimers(timers') < ApplyTimers(timers)
            => \/ AppliesOnce
               \/ ev'.op = "load" /\ load_handler /\ timers' = <<>> ]_vars

\* two well-formed frames have been read in one session and both calls have
\* been made
C14_Witness ==
    /\ Len(rx_log) = 2
    /\ \A i \in 1 .. 2 : rx_log[i].outcome = "queued" /\ WellFormedUpdate(rx_log[i].text)
    /\ ApplyTimers(timers) = 0
    /\ TotalReceived = 2
    /\ received_transform_data.doc = Some(rx_log[2].text)

(***************************************************************************)
(* Properties of the throttles, under SpecRate.                            *)
(***************************************************************************)
\* the results of a trigger that has called send_mesh_data
Accepted == {"sent", "send_failed", "unchanged", "no_mesh", "error"}

\* this step is a scene-change trigger
DepsgraphTrigger ==
    /\ ev'.op = "depsgraph"
    /\ \E s \in Scenes : depsgraph_update_handler(s, GoodInput)

\* this step is a frame-change trigger
FrameTrigger ==
    /\ ev'.op = "frame"
    /\ \E s \in Scenes : frame_change_handler(s, GoodInput)

\* C17: with the frequency set to f Hz, a scene-change trigger less than 1/f
\* seconds after the last accepted one does not call send_mesh_data and
\* changes nothing; one that comes 1/f seconds or more after it, in a running
\* session with the gate idle, calls send_mesh_data and is the new last
\* accepted one.
C17_SceneChangeThrottle ==
    [][ DepsgraphTrigger
          => LET since == now - last_depsgraph_sync_time
                 f == settings.update_frequency
             IN  /\ since * f < 1000
                       => /\ ev'.res \notin Accepted
                          /\ UNCHANGED << PublishState, serialized >>
                 /\ (since * f >= 1000 /\ GateVerdict = "")
                       => /\ ev'.res \in Accepted
                          /\ last_depsgraph_sync_time' = now ]_vars

\* at 10 Hz a scene-change trigger has been dropped 50 ms after the last
\* accepted one
C17_Witness ==
    /\ is_server_running
    /\ settings.update_frequency = 10
    /\ ev = [op |-> "depsgraph", res |-> "throttled"]
    /\ now - last_depsgraph_sync_time = RateTickMs

\* C18: a trigger of either kind that calls send_mesh_data comes 1/f seconds
\* or more after the last trigger of its kind that did, f being the
\* frequency set: at 10 Hz no two accepted triggers of a kind are less than
\* 100 ms apart.
C18_BothTriggersRateLimited ==
    [][ /\ (DepsgraphTrigger /\ ev'.res \in Accepted)
            => (now - last_depsgraph_sync_time) * settings.update_frequency >= 1000
        /\ (FrameTrigger /\ ev'.res \in Accepted)
            => (now - last_frame_sync_time) * settings.update_frequency >= 1000 ]_vars

(***************************************************************************)
(* Properties of the texture cache, under SpecTexture.                     *)
(***************************************************************************)
\* this step is a publish that has called extract_texture_data on an image
TextureCall == Len(tex_log') = Len(tex_log) + 1

\* the call this step has made
ThisCall == tex_log'[Len(tex_log')]

\* C19: a call of extract_texture_data whose cache key is the key of an
\* earlier call that returned an asset returns that same asset, does not read
\* the bytes of the image, adds one to textures_cached, and leaves
\* textures_sent and the cache as they were.
C19_SecondCallServedFromCache ==
    [][ TextureCall
          => \A i \in 1 .. Len(tex_log) :
                (tex_log[i].key = ThisCall.key /\ tex_log[i].ret.kind = "asset")
                  => /\ ThisCall.ret = tex_log[i].ret
                     /\ ~ThisCall.read
                     /\ sync_stats'.textures_cached = sync_stats.textures_cached + 1
                     /\ sync_stats'.textures_sent = sync_stats.textures_sent
                     /\ texture_cache' = texture_cache ]_vars

\* two calls with the same key, the first of which has read the bytes and
\* the second has not
C19_Witness ==
    /\ Len(tex_log) = 2
    /\ tex_log[1].key = tex_log[2].key
    /\ tex_log[1].ret.kind = "asset" /\ tex_log[1].read
    /\ tex_log[2].ret = tex_log[1].ret /\ ~tex_log[2].read
    /\ sync_stats.textures_cached = 1
    /\ sync_stats.textures_sent = 1

\* the image of the call is an external file that cannot be read: its path
\* is relative and the .blend file is not saved, or the file is absent or
\* not readable
CannotBeRead(c) ==
    /\ c.image.packed = <<>> /\ c.image.filepath # <<>>
    /\ \/ IsBlendRelative(c.image.filepath) /\ c.world.blend_file = <<>>
       \/ ~c.world.file.exists
       \/ ~c.world.file.readable

\* the call has returned an error marker, has stored nothing, and the
\* publish has gone on to build its text with the marker in the material
ErrorMarkerPublished ==
    /\ ThisCall.ret.kind = "error"
    /\ texture_cache' = texture_cache
    /\ ev'.res \in {"sent", "send_failed", "unchanged"}
    /\ serialized' = Some(MaterialText([name |-> "Material",
                                        textures |-> Some([diffuse |-> ThisCall.ret])]))

\* C20 as claimed: whenever the image's file cannot be read, the call returns
\* an error marker, stores nothing in the cache, and the publish goes on with
\* the marker in the material.
C20_UnreadableSourceGivesError ==
    [][ (TextureCall /\ CannotBeRead(ThisCall)) => ErrorMarkerPublished ]_vars

\* C20 amended: the same when the cache has no entry under the key of the
\* call; when it has one, the entry is returned and the file is not opened.
C20_UnreadableSourceGivesErrorUnlessCached ==
    [][ (TextureCall /\ CannotBeRead(ThisCall))
          => IF InCache(texture_cache, ThisCall.key)
             THEN ThisCall.ret.kind = "asset" /\ ~ThisCall.read
             ELSE ErrorMarkerPublished ]_vars

\* a file that was read and cached is absent at the next publish: the error
\* marker is what is serialized
C20_Witness ==
    /\ Len(tex_log) = 2
    /\ tex_log[1].ret.kind = "asset"
    /\ tex_log[2].image = tex_log[1].image
    /\ ~tex_log[2].world.file.exists
    /\ tex_log[2].ret.kind = "error"
    /\ ev.res = "sent"
    /\ serialized = Some(<< 123, 70, 125 >>)

(***************************************************************************)
(* Properties of the publish path, under SpecPublish.                      *)
(***************************************************************************)
\* this step is a trigger whose call of send_mesh_data has built its text
PublishCall ==
    /\ ev'.op \in {"depsgraph", "frame"}
    /\ ev'.res \in {"sent", "send_failed", "unchanged"}
    /\ PublishTrigger

PublishEffects == << wire_out, sync_stats, last_data >>

\* this step is a publish whose send_data has returned False
FailedSend == PublishCall /\ ev'.res = "send_failed"

\* C15: a publish whose write is short or raises adds one to the error
\* counter and leaves the running flag, the socket and the last-sent text as
\* they were.
C15_FailedSendCountedAsError ==
    [][ FailedSend
          => /\ sync_stats'.errors = sync_stats.errors + 1
             /\ UNCHANGED << is_server_running, tcp_socket, last_data >> ]_vars

\* the frame send_data writes for a text
FrameOf(data_str) ==
    ToBytes4(Len(ZlibCompress(Utf8Encode(data_str)))) \o ZlibCompress(Utf8Encode(data_str))

\* C16: a publish whose write completes (the whole frame is on the wire) adds
\* one to packets_sent, adds the length of the UTF-8 encoding of the text to
\* bytes_sent and makes the text the last-sent text; no other step raises
\* either counter or changes the last-sent text.
C16_CompletedWriteIsRecorded ==
    [][ /\ (ev'.res = "sent" /\ PublishCall)
            => /\ wire_out' = wire_out \o FrameOf(serialized'[1])
               /\ sync_stats'.packets_sent = sync_stats.packets_sent + 1
               /\ sync_stats'.bytes_sent
                     = sync_stats.bytes_sent + Len(Utf8Encode(serialized'[1]))
               /\ last_data' = serialized'
        /\ (\/ sync_stats'.packets_sent > sync_stats.packets_sent
            \/ sync_stats'.bytes_sent > sync_stats.bytes_sent
            \/ last_data' # last_data)
            => (ev'.res = "sent" /\ PublishCall) ]_vars

\* two publishes have completed
C16_Witness ==
    /\ ev.res = "sent"
    /\ sync_stats.packets_sent = 2
    /\ last_data = serialized
    /\ sync_stats.bytes_sent > Len(Utf8Encode(last_data[1]))

\* C2 as claimed: a call of send_mesh_data whose text is identical to the
\* text of the call before it writes nothing to the socket and leaves the
\* counters and the remembered text unchanged.
C2_SameTextAsLastCall ==
    [][ (PublishCall /\ serialized # <<>> /\ serialized' = serialized)
          => UNCHANGED PublishEffects ]_vars

\* C2 amended: a call of send_mesh_data whose text is identical to the
\* remembered text, which is the text of the last send that completed,
\* writes nothing to the socket and leaves the counters and the remembered
\* text unchanged.
C2_SameTextAsLastSent ==
    [][ (PublishCall /\ serialized' = last_data)
          => (ev'.res = "unchanged" /\ UNCHANGED PublishEffects) ]_vars

\* a call has found its text identical to the one sent before and has
\* skipped the send
C2_Witness ==
    /\ ev.op \in {"depsgraph", "frame"}
    /\ ev.res = "unchanged"
    /\ serialized = last_data
    /\ sync_stats.packets_sent = 1
    /\ wire_out # <<>>

(***************************************************************************)
(* Properties of the wire, under SpecWire.                                 *)
(***************************************************************************)
\* the frames the inbound loop has logged, put back on the wire
RECURSIVE Reframed(_)
Reframed(log) ==
    IF log = <<>> THEN <<>>
    ELSE ToBytes4(log[1].size) \o log[1].data \o Reframed(Tail(log))

\* the bytes of the frame the inbound thread is in the middle of
InProgress(t) ==
    CASE thr[t].pc = "hdr" -> thr[t].size_data
      [] thr[t].pc = "body" -> ToBytes4(thr[t].message_size) \o thr[t].message_data
      [] OTHER -> <<>>

\* the payload lengths of a wire made of whole frames
RECURSIVE FrameLengths(_)
FrameLengths(w) ==
    IF Len(w) < 4 THEN <<>>
    ELSE LET n == CHOOSE k \in 0 .. MAX_SEND_SIZE : ToBytes4(k) = SubSeq(w, 1, 4)
         IN  << n >> \o FrameLengths(SubSeq(w, 5 + n, Len(w)))

\* what the echoing peer has sent back is, byte for byte, the frames read so
\* far, each with a payload of its declared length, then the frame being
\* read, then what is still in the socket
ReadBack ==
    /\ \A i \in 1 .. Len(rx_log) : Len(rx_log[i].data) = rx_log[i].size
    /\ SubSeq(wire_out, 1, echoed)
         = Reframed(rx_log) \o InProgress(receive_thread) \o inbuf

Echoing == echoed # None /\ Alive(receive_thread)

\* C3 as claimed: whatever send_data has framed (payloads up to the
\* outbound limit), the inbound loop reads back exactly, however the bytes
\* are split across recv calls and timeouts.
C3_RoundTrip == Echoing => ReadBack

\* C3 amended: the same for frames whose payload is within the inbound
\* limit, which is lower than the outbound one.
C3_RoundTripWithinInboundLimit ==
    (Echoing /\ \A i \in 1 .. Len(FrameLengths(wire_out)) :
                    FrameLengths(wire_out)[i] <= MAX_RECV_SIZE)
        => ReadBack

\* a frame whose payload is as long as the inbound limit has been sent,
\* echoed and read back whole
C3_Witness ==
    /\ Echoing
    /\ Len(rx_log) = 1
    /\ rx_log[1].size = MAX_RECV_SIZE
    /\ wire_out = Reframed(rx_log)

Decoded == {"queued", "ignored", "crash"}

C5_OversizeNeverRead ==
    /\ \A t \in ThreadIds :
          /\ thr[t].pc = "body" => thr[t].message_size <= MAX_RECV_SIZE
          /\ Len(thr[t].message_data) <= MAX_RECV_SIZE
    /\ \A i \in 1 .. Len(rx_log) :
          rx_log[i].size > MAX_RECV_SIZE
            => (rx_log[i].outcome = "too_large" /\ rx_log[i].data = <<>>)

\* a header above the limit has been decoded
C5_Witness ==
    \E i \in 1 .. Len(rx_log) :
        rx_log[i].size > MAX_RECV_SIZE /\ rx_log[i].outcome = "too_large"

\* this step decodes a header that declares more than the inbound limit
OversizeStep ==
    /\ Len(rx_log') = Len(rx_log) + 1
    /\ rx_log'[Len(rx_log')].outcome = "too_large"

\* C6 as claimed: a frame that declares more than the inbound limit is not
\* dispatched, adds one to the error counter, and leaves the inbound loop
\* running and the running flag and the socket unchanged.
C6_OversizeCountedAsError ==
    [][ OversizeStep
          => /\ timers' = timers
             /\ sync_stats'.errors = sync_stats.errors + 1
             /\ Alive(receive_thread)'
             /\ UNCHANGED << is_server_running, tcp_socket >> ]_vars

\* the compressed form of the text is larger than the outbound limit
Oversize(text) == Len(ZlibCompress(Utf8Encode(text))) > MAX_SEND_SIZE

\* C21: a publish whose text compresses to more than the outbound limit
\* fails with nothing written to the socket, header or payload, and leaves
\* the socket, the running flag, the counters of sent data and the last-sent
\* text as they were.
C21_OversizePublishWritesNothing ==
    [][ (PublishCall /\ Oversize(serialized'[1]))
          => /\ ev'.res = "send_failed"
             /\ wire_out' = wire_out
             /\ sync_stats'.packets_sent = sync_stats.packets_sent
             /\ sync_stats'.bytes_sent = sync_stats.bytes_sent
             /\ UNCHANGED << tcp_socket, sock_connected, is_server_running,
                             last_data >> ]_vars

\* after a publish that went through, a publish of a text above the limit
\* has failed and the bytes on the wire are those of the first frame
C21_Witness ==
    /\ ev.res = "send_failed"
    /\ Oversize(serialized[1])
    /\ is_server_running /\ tcp_socket # None
    /\ sync_stats.packets_sent = 1
    /\ wire_out = FrameOf(last_data[1])

(***************************************************************************)
(* Properties of the inbound thread across sessions, under Spec.           *)
(***************************************************************************)
\* the threads that are inside receive_messages
Running == {t \in ThreadIds : Alive(t)}

\* this step is thread t going round the header loop or the payload loop
ReadStep(t) == T_Header(t) \/ T_Body(t)

\* C22: at most one socket is held and at most one thread is inside
\* receive_messages, and the only thread that goes on reading is the thread
\* of the latest start.
C22_OneInboundThread ==
    [][ /\ Cardinality(Running') <= 1
        /\ tcp_socket' \in {None, nsock'}
        /\ \A t \in ThreadIds : ReadStep(t) => t = receive_thread ]_vars

(***************************************************************************)
(* Properties of the gate around an apply, under SpecInbound.              *)
(***************************************************************************)
\* this step is a timer calling apply_transform_update
ApplyStep == RunTimer /\ ev'.op = "apply"

\* C23: every call of apply_transform_update, whether the object is moved,
\* is not found or an exception is raised on the fields of the message,
\* leaves the cooldown deadline at the time of the call + 1.0 s, so that a
\* trigger of the running session is vetoed from then on.
C23_EveryApplyArmsCooldown ==
    [][ ApplyStep
          => /\ external_transform_cooldown_end' = now + COOLDOWN_MS
             /\ is_server_running => GateVerdict' \in Vetoes ]_vars

(***************************************************************************)
(* Properties of the gate over time, under SpecReopen.                     *)
(***************************************************************************)
GateClosed == is_applying_external_transform \/ now < external_transform_cooldown_end

GateIdle == ~is_applying_external_transform /\ now >= external_transform_cooldown_end

\* this step is a scene-change trigger, on the one scene of SpecReopen
SceneChange == ev'.op = "depsgraph" /\ RateTrigger

\* the flag is set and no timer is registered that will clear it: the load
\* of a file has removed the timer
Orphaned ==
    /\ is_applying_external_transform
    /\ \A i \in 1 .. Len(timers) : timers[i].fn # "clear"

Parsed == {"queued", "ignored", "crash", "json_error", "unicode_error"}

IsPrefix(a, b) == Len(a) <= Len(b) /\ a = SubSeq(b, 1, Len(a))

\* the log is made of the beginnings of at most n of the peer's streams, one
\* after the other
RECURSIVE ReadFrom(_, _)
ReadFrom(log, n) ==
    \/ log = <<>>
    \/ /\ n > 0
       /\ \E k \in 1 .. Len(log), st \in FrameStreams :
             /\ IsPrefix(Reframed(SubSeq(log, 1, k)), st)
             /\ ReadFrom(SubSeq(log, k + 1, Len(log)), n - 1)

\* the step has decoded a payload or has registered a call
ParsesOrDispatches ==
    \/ timers' # timers
    \/ Len(rx_log') > Len(rx_log) /\ rx_log'[Len(rx_log')].outcome \in Parsed

\* C25: a payload is decoded, parsed and handed off only by a step that holds
\* exactly the declared number of bytes; a payload cut short by a stop is
\* logged as incomplete and nothing is registered for it; and what has been
\* logged is, byte for byte, the beginning of the stream the peer has sent
\* (of each stream, when it has sent several), however it was split.
C25_OnlyWholeFramesAreParsed ==
    /\ [][ \A t \in ThreadIds :
             (ReadStep(t) /\ ParsesOrDispatches)
               => /\ thr[t].pc = "body"
                  /\ Len(thr[t].message_data) = thr[t].message_size
                  /\ rx_log'[Len(rx_log')].data = thr[t].message_data ]_vars
    /\ [] /\ \A i \in 1 .. Len(rx_log) :
               /\ rx_log[i].outcome \in Parsed => Len(rx_log[i].data) = rx_log[i].size
               /\ rx_log[i].outcome = "incomplete" => Len(rx_log[i].data) < rx_log[i].size
          /\ ReadFrom(rx_log, nframes)
          /\ Len(SelectSeq(timers, LAMBDA x : x.fn = "apply"))
               = Len(SelectSeq(rx_log, LAMBDA e : e.outcome = "queued"))

\* the first frame has arrived in pieces and has been handed off, the second
\* has been cut short by a stop with some of its payload read
C25_Witness ==
    /\ Len(rx_log) = 2
    /\ rx_log[1].outcome = "queued"
    /\ rx_log[2].outcome = "incomplete" /\ rx_log[2].data # <<>>
    /\ Len(timers) = 1
    /\ stop_receive_thread

(***************************************************************************)
(* Properties of the two threads, under SpecGate.                          *)
(***************************************************************************)
\* the gate, the record of the last received transform and the statistics
MainThreadState ==
    << is_applying_external_transform, external_transform_cooldown_end,
       last_applied_transform, received_transform_data, sync_stats >>

\* this step is a step of the inbound thread t
InboundStep(t) == T_Loop(t) \/ T_Header(t) \/ T_Body(t)

\* this step is a callback or an operator run by the main thread
MainThreadStep ==
    /\ main_pc = "idle"
    /\ RunTimer \/ GateTrigger \/ StartWebSyncServer(TRUE)

\* C26: a step of the inbound thread leaves the gate, the record of the last
\* received transform and the statistics as they are; the one thing it does
\* with a transform_update is to register a call of apply_transform_update
\* with the message.  Those variables change only in steps of the main
\* thread, and a call of apply_transform_update that goes on to the scene
\* arms the gate and updates the record in one such step.
C26_InboundThreadOnlyHandsOff ==
    [][ /\ \A t \in ThreadIds :
             InboundStep(t)
               => /\ UNCHANGED << MainThreadState, applied_at >>
                  /\ timers' # timers => (PayloadRead(t) /\ Dispatches(t))
        /\ ~UNCHANGED MainThreadState => MainThreadStep
        /\ (ApplyStep /\ ev'.res \in {"applied", "not_found"})
             => /\ is_applying_external_transform'
                /\ external_transform_cooldown_end' = now + COOLDOWN_MS
                /\ TotalReceived' = TotalReceived + 1 ]_vars

\* the inbound thread has handed a transform_update off and is back at the
\* top of its loop; the main thread has applied it and holds the gate
C26_Witness ==
    /\ Len(rx_log) = 1 /\ rx_log[1].outcome = "queued"
    /\ Alive(receive_thread)
    /\ ev = [op |-> "apply", res |-> "applied"]
    /\ is_applying_external_transform
    /\ TotalReceived = 1
    /\ Len(timers) = 1 /\ timers[1].fn = "clear"

(***************************************************************************)
(* Properties of the order of stop, under SpecJoin.                        *)
(***************************************************************************)
\* the socket object and the handle
SocketState == << tcp_socket, sock_connected, inbuf, peer_eof, wire_out >>

\* this step is the stop operator going on after join
JoinedStep == \E close_ok \in BOOLEAN : StopJoined(close_ok)

\* C27: a call of stop sets the stop flag first; when the inbound thread is
\* alive it then waits in join, for 2.0 s at most, with the socket untouched;
\* the socket is closed after join has returned, because the thread has ended
\* or because the time is up, and in the second case the thread is left as it
\* is; when close() returns the handle is cleared and stop returns
\* {"FINISHED"}.
C27_StopJoinsBeforeClosing ==
    [][ /\ StopCalled
            => /\ stop_receive_thread'
               /\ Alive(receive_thread)
                    => /\ main_pc' = "joining"
                       /\ join_deadline' = now + JOIN_TIMEOUT_MS
                       /\ UNCHANGED SocketState
        /\ JoinedStep
            => /\ stop_receive_thread
               /\ ~Alive(receive_thread) \/ now >= join_deadline
               /\ UNCHANGED thr
               /\ ~sock_connected'
               /\ main_pc' = "idle"
        /\ StopJoined(TRUE)
            => /\ tcp_socket' = None
               /\ ev' = [op |-> "stop", res |-> "FINISHED"] ]_vars

\* join has timed out: stop has closed the socket and returned while the
\* inbound thread was still inside its loop
C27_Witness ==
    /\ ev = [op |-> "stop", res |-> "FINISHED"]
    /\ main_pc = "idle"
    /\ Alive(receive_thread)
    /\ thr[receive_thread].pc \in {"hdr", "body"}
    /\ now >= join_deadline /\ join_deadline > Epoch
    /\ tcp_socket = None

(***************************************************************************)
(* Properties of the close of the socket, under Spec.                      *)
(***************************************************************************)
\* this step closes the socket or clears the handle
ClosesSocket ==
    /\ tcp_socket # None
    /\ tcp_socket' = None \/ (sock_connected /\ ~sock_connected')

\* the inbound thread t is inside the header loop or the payload loop: in
\* recv, or about to call it again
Reading(t) == thr[t].pc \in {"hdr", "body"}

\* C28: no step of stop, load_handler or unregister closes the socket or
\* clears the handle while an inbound thread is inside one of its read loops.
C28_CloseWaitsForReader ==
    [][ ClosesSocket => \A t \in ThreadIds : ~Reading(t) ]_vars

(***************************************************************************)
(* Properties of cancellation, under SpecCancel.                           *)
(***************************************************************************)
\* how far the thread is from the end of receive_messages once the flag is set
Rank(pc) ==
    CASE pc = "hdr" -> 3
      [] pc = "body" -> 2
      [] pc = "loop" -> 1
      [] OTHER -> 0

\* a step of thread t with the stop flag set calls recv no more and takes
\* the thread towards its end
Winds(t) ==
    /\ inbuf' = inbuf
    /\ Rank(thr'[t].pc) < Rank(thr[t].pc)

\* C29 as claimed: with the stop flag set, the inbound thread calls recv no
\* more, registers no call of apply_transform_update, and ends.
C29_CancelledThreadDispatchesNothing ==
    /\ [][ \A t \in ThreadIds :
             (stop_receive_thread /\ InboundStep(t))
               => (Winds(t) /\ timers' = timers) ]_vars
    /\ \A t \in ThreadIds : (stop_receive_thread /\ Alive(t)) ~> ~Alive(t)

\* C29 amended: with the stop flag set, the inbound thread calls recv no more
\* and ends within three steps, unless a later start clears the flag first;
\* the only call it may still register is for the payload it had read whole
\* before it looked at the flag.
C29_CancelledThreadFinishesItsFrame ==
    /\ [][ \A t \in ThreadIds :
             (stop_receive_thread /\ InboundStep(t))
               => /\ Winds(t)
                  /\ timers' # timers => (PayloadRead(t) /\ Dispatches(t)) ]_vars
    /\ \A t \in ThreadIds :
          (stop_receive_thread /\ Alive(t)) ~> (~Alive(t) \/ ~stop_receive_thread)

\* stop has set the flag while the thread was in the middle of a payload:
\* the thread has logged the frame as incomplete and has ended, and join has
\* returned before its time was up
C29_Witness ==
    /\ ev = [op |-> "stop", res |-> "FINISHED"]
    /\ stop_receive_thread
    /\ receive_thread # None
    /\ thr[receive_thread] = DeadThread
    /\ join_deadline > now
    /\ Len(rx_log) = 1 /\ rx_log[1].outcome = "incomplete"
    /\ timers = <<>>

(***************************************************************************)
(* Properties of the statistics, under SpecStats.                          *)
(***************************************************************************)
StatCounters ==
    {"packets_sent", "bytes_sent", "errors", "textures_cached", "textures_sent"}

\* C30: no step lowers a counter of sync_stats, except a start that has
\* connected, which sets all five to 0.
C30_CountersOnlyGrowWithinSession ==
    [][ (\E c \in StatCounters : sync_stats'[c] < sync_stats[c])
          => /\ StartWebSyncServer(TRUE)
             /\ sync_stats' = InitStats ]_vars

\* a second session has published a scene with a texture and has counted an
\* error of its own
C30_Witness ==
    /\ nsock = 2
    /\ is_server_running
    /\ sync_stats.packets_sent > 0
    /\ sync_stats.bytes_sent > 0
    /\ sync_stats.textures_sent > 0
    /\ sync_stats.errors > 0

(***************************************************************************)
(* Properties of the dispatch by type, under SpecDispatch.                 *)
(***************************************************************************)
\* the payload is an object whose type is not transform_update, or that has
\* no type
OtherType(message_data) ==
    /\ Utf8Decode(message_data).ok
    /\ JsonLoads(Utf8Decode(message_data).text).kind = "dict"
    /\ JsonLoads(Utf8Decode(message_data).text).type # "transform_update"

\* the timer that runs in this step calls apply_transform_update with a
\* transform_update message
AppliesUpdate ==
    /\ ApplyStep
    /\ \E i \in DueTimers :
          /\ \A k \in DueTimers : i <= k
          /\ timers[i].fn = "apply"
          /\ JsonLoads(timers[i].msg).type = "transform_update"

RECURSIVE WholeFrames(_)
WholeFrames(bytes) ==
    IF bytes = <<>> THEN TRUE
    ELSE IF Len(bytes) < 4 THEN FALSE
    ELSE LET n == FromBytes4(SubSeq(bytes, 1, 4))
         IN  IF Len(bytes) - 4 < n THEN FALSE
             ELSE WholeFrames(SubSeq(bytes, 4 + n + 1, Len(bytes)))

\* the bytes begin with the n bytes a payload still lacks, whole frames
\* behind them
RestThenWholeFrames(n, bytes) ==
    /\ Len(bytes) >= n
    /\ WholeFrames(SubSeq(bytes, n + 1, Len(bytes)))

\* what the inbound thread t has not read yet, the bytes still with the
\* peer included, goes on at the point of a frame where the thread is
Aligned(t) ==
    LET unread == inbuf \o peer_stream
    IN  CASE thr[t].pc = "loop" -> WholeFrames(unread)
          [] thr[t].pc = "hdr" -> WholeFrames(thr[t].size_data \o unread)
          [] thr[t].pc = "body" ->
               RestThenWholeFrames(thr[t].message_size - Len(thr[t].message_data), unread)
          [] OTHER -> TRUE

\* C33: while the peer sends well-formed frames, the inbound thread of the
\* session is at a frame boundary of the stream whenever it starts on a
\* header, also after it has rejected a frame longer than the limit.
C33_HeadersStartAtFrameBoundaries ==
    (receive_thread # None /\ ~stop_receive_thread) => Aligned(receive_thread)

(***************************************************************************)
(* Properties of the outbound stream, under SpecPublish.                   *)
(***************************************************************************)
\* C34: what the session has written to its socket is, after every call of
\* send_mesh_data, a sequence of whole frames: each header is followed by as
\* many payload bytes as it declares, also when a call has given up after a
\* short write of the header, a send that returned 0 or a send that raised.
C34_WireIsWholeFrames == WholeFrames(wire_out)

(***************************************************************************)
(* Properties of the diff baseline across sessions, under Spec.            *)
(***************************************************************************)
\* this step is a trigger that has built the text of a scene with a mesh
\* and has compared it, the socket taking whatever is sent
ComparesText ==
    /\ DepsgraphTrigger \/ FrameTrigger
    /\ ev'.res \in {"sent", "unchanged"}

\* C35: the first trigger of a session that gets as far as the comparison
\* writes a frame to the session's connection, whatever was sent in the
\* session before.
C35_FirstPublishOfSessionWrites ==
    [][ (is_server_running /\ wire_out = <<>> /\ ComparesText)
          => /\ ev'.res = "sent"
             /\ wire_out' # <<>> ]_vars

(***************************************************************************)
(* Properties of the hand-off across sessions, under SpecGate.             *)
(***************************************************************************)
\* a call of apply_transform_update is registered and has not been made
ApplyPending(ts) == \E i \in 1 .. Len(ts) : ts[i].fn = "apply"

\* C36: apply_transform_update is called only while the session that read
\* the message is running: no call is made between the return of stop and
\* the next start, and a start that connects begins its session with no
\* call pending from the session before, so that total_received leaves 0
\* only for a message of the new session.
C36_NoApplyForStoppedSession ==
    [][ /\ ApplyStep => is_server_running
        /\ (~is_server_running /\ StartWebSyncServer(TRUE))
             => ~ApplyPending(timers') ]_vars

(***************************************************************************)
(* Properties of the socket handle, under Spec.                            *)
(***************************************************************************)
\* C37: whenever no operator is executing, tcp_socket holds a socket exactly
\* when is_server_running is set; after a start that failed to connect, after
\* stop and after the load of a file it holds none.
C37_SocketHeldIffRunning ==
    main_pc = "idle" => (tcp_socket # None <=> is_server_running)

(***************************************************************************)
(* Properties of the freshness of the texture cache, under SpecTexture.    *)
(***************************************************************************)
\* the bytes of the source of the image at the time of call c
CurrentBytes(c) ==
    IF c.image.packed # <<>> THEN c.image.packed[1] ELSE c.world.file.data

\* C38: an asset returned by extract_texture_data, from the cache or newly
\* built, carries the data and the hash of the bytes the source of the image
\* has at the time of the call.
C38_NoStaleCacheHit ==
    [][ (TextureCall /\ ThisCall.ret.kind = "asset")
          => ThisCall.ret = TextureData(ThisCall.image, CurrentBytes(ThisCall)) ]_vars

====
